---- MODULE Spec2Model ----
(***************************************************************************)
(* Model of the transaction text parser of backend/src/services            *)
(* (parseTransactionText, parseTransactionsWithFallbacks,                  *)
(* calculateBatchConfidence and the helpers they call).                    *)
(*                                                                         *)
(* A text is a sequence of one-character strings.  Every regular           *)
(* expression of the source is an operator that computes the leftmost      *)
(* match and its capture groups the way the JavaScript engine does.        *)
(* Money is an integer number of hundredths (420.00 is 42000); a           *)
(* per-record confidence is an integer number of hundredths (0.95 is 95);  *)
(* a batch confidence is the exact fraction [num, den].                    *)
(***************************************************************************)
EXTENDS Integers, Sequences, FiniteSets, TLC

\* A value that may be null (or undefined, or NaN) is a sequence of length
\* at most one: NULL when there is none, <<v>> when it is v.
NULL == <<>>

(***************************************************************************)
(* Characters and strings                                                  *)
(***************************************************************************)
Chars(s) == [i \in 1..Len(s) |-> SubSeq(s, i, i)]

Digits == {"0", "1", "2", "3", "4", "5", "6", "7", "8", "9"}
\* the class \s
Whitespace == {" ", "\t", "\n", "\r"}
\* the class [:\s]
ColonSpace == Whitespace \cup {":"}
\* the class [\d,]
DigitComma == Digits \cup {","}

DigitVal == [c \in Digits |->
    CASE c = "0" -> 0 [] c = "1" -> 1 [] c = "2" -> 2 [] c = "3" -> 3
      [] c = "4" -> 4 [] c = "5" -> 5 [] c = "6" -> 6 [] c = "7" -> 7
      [] c = "8" -> 8 [] c = "9" -> 9]

UpperCase == Chars("ABCDEFGHIJKLMNOPQRSTUVWXYZ")
LowerCase == Chars("abcdefghijklmnopqrstuvwxyz")
LowerMap == [c \in {UpperCase[i] : i \in 1..26} |->
    LowerCase[CHOOSE i \in 1..26 : UpperCase[i] = c]]

\* String.prototype.toLowerCase, one character / whole string
Lower(c) == IF c \in DOMAIN LowerMap THEN LowerMap[c] ELSE c
toLowerCase(s) == [i \in 1..Len(s) |-> Lower(s[i])]

\* the character at position i (1-based), "" past either end
At(s, i) == IF i \in 1..Len(s) THEN s[i] ELSE ""

\* the literal lit occurs in s at position i
StartsWith(s, i, lit) ==
    /\ i >= 1
    /\ i + Len(lit) - 1 <= Len(s)
    /\ \A k \in 1..Len(lit) : s[i + k - 1] = lit[k]

\* the same under the regex flag i (lit is written in lower case)
StartsWithI(s, i, lit) ==
    /\ i >= 1
    /\ i + Len(lit) - 1 <= Len(s)
    /\ \A k \in 1..Len(lit) : Lower(s[i + k - 1]) = lit[k]

\* String.prototype.includes
includes(s, lit) == \E i \in 1..(Len(s) - Len(lit) + 1) : StartsWith(s, i, lit)

\* a greedy run X* of the class C from position i: the position after it
RECURSIVE RunEnd(_, _, _)
RunEnd(s, i, C) == IF At(s, i) \in C THEN RunEnd(s, i + 1, C) ELSE i

\* \d{n} at position i
DigitsAt(s, i, n) == \A k \in 0..(n - 1) : At(s, i + k) \in Digits

\* parseInt of the digits s[i..j]
RECURSIVE ToInt(_, _, _)
ToInt(s, i, j) == IF j < i THEN 0 ELSE 10 * ToInt(s, i, j - 1) + DigitVal[s[j]]

\* s[i..j] (String.prototype.substring with 1-based inclusive ends)
Sub(s, i, j) == IF j < i THEN <<>> ELSE SubSeq(s, i, j)

Min(S) == CHOOSE x \in S : \A y \in S : x <= y
Max(S) == CHOOSE x \in S : \A y \in S : x >= y

\* String.prototype.trim
trim(s) ==
    LET keep == {i \in 1..Len(s) : s[i] \notin Whitespace}
    IN  IF keep = {} THEN <<>> ELSE SubSeq(s, Min(keep), Max(keep))

(***************************************************************************)
(* Dates: new Date(year, monthIndex, day)                                  *)
(***************************************************************************)
IsLeap(y) == (y % 4 = 0 /\ y % 100 # 0) \/ y % 400 = 0

\* days of the month with index m (0 = January) of year y
DaysInMonth(y, m) ==
    IF m = 1 THEN (IF IsLeap(y) THEN 29 ELSE 28)
    ELSE IF m \in {3, 5, 8, 10} THEN 30 ELSE 31

\* day d >= 1 counted from the first of month ym (months since year 0)
RECURSIVE RollDays(_, _)
RollDays(ym, d) ==
    LET dim == DaysInMonth(ym \div 12, ym % 12)
    IN  IF d > dim THEN RollDays(ym + 1, d - dim)
        ELSE [year |-> ym \div 12, month |-> ym % 12, day |-> d]

\* the Date constructor: years 0..99 mean 1900..1999, a month index outside
\* 0..11 and a day outside the month carry over into the neighbouring
\* months; it never throws and, with integer arguments, is never invalid
NewDate(year, month, day) ==
    LET y  == IF year \in 0..99 THEN 1900 + year ELSE year
        ym == y * 12 + month
    IN  IF day >= 1 THEN RollDays(ym, day)
        ELSE RollDays(ym - 1, DaysInMonth((ym - 1) \div 12, (ym - 1) % 12) + day)

\* monthMap
MonthNames == << Chars("jan"), Chars("feb"), Chars("mar"), Chars("apr"),
                 Chars("may"), Chars("jun"), Chars("jul"), Chars("aug"),
                 Chars("sep"), Chars("oct"), Chars("nov"), Chars("dec") >>

\* the index in monthMap of the month name at position i, -1 if none
MonthAt(s, i) ==
    LET hit == {m \in 1..12 : StartsWithI(s, i, MonthNames[m])}
    IN  IF hit = {} THEN -1 ELSE Min(hit) - 1

\* String.prototype.match without the flag g tries the positions from left
\* to right: the least of the positions hit at which the pattern matches,
\* 0 if there is none
Leftmost(hit) == IF hit = {} THEN 0 ELSE Min(hit)

\* datePatterns[0] at position i: (\d{1,2})\s+(Jan|...|Dec)\s+(\d{4}), flag i
DatePattern0At(s, i) ==
    LET k  == IF DigitsAt(s, i, 2) THEN 2 ELSE 1
        a  == i + k
        b  == RunEnd(s, a, Whitespace)
        m  == MonthAt(s, b)
        c  == b + 3
        d  == RunEnd(s, c, Whitespace)
    IN  IF /\ DigitsAt(s, i, 1)
           /\ b > a
           /\ m >= 0
           /\ d > c
           /\ DigitsAt(s, d, 4)
        THEN <<[g1 |-> ToInt(s, i, a - 1), g2 |-> m, g3 |-> ToInt(s, d, d + 3)]>>
        ELSE NULL

\* datePatterns[1] at position i: (\d{1,2})\/(\d{1,2})\/(\d{4})
DatePattern1At(s, i) ==
    LET k1 == IF DigitsAt(s, i, 2) THEN 2 ELSE 1
        a  == i + k1
        k2 == IF DigitsAt(s, a + 1, 2) THEN 2 ELSE 1
        b  == a + 1 + k2
    IN  IF /\ DigitsAt(s, i, 1)
           /\ At(s, a) = "/"
           /\ DigitsAt(s, a + 1, 1)
           /\ At(s, b) = "/"
           /\ DigitsAt(s, b + 1, 4)
        THEN <<[g1 |-> ToInt(s, i, a - 1), g2 |-> ToInt(s, a + 1, b - 1),
              g3 |-> ToInt(s, b + 1, b + 4)]>>
        ELSE NULL

\* datePatterns[2] at position i: (\d{4})-(\d{2})-(\d{2})
DatePattern2At(s, i) ==
    IF /\ DigitsAt(s, i, 4)
       /\ At(s, i + 4) = "-"
       /\ DigitsAt(s, i + 5, 2)
       /\ At(s, i + 7) = "-"
       /\ DigitsAt(s, i + 8, 2)
    THEN <<[g1 |-> ToInt(s, i, i + 3), g2 |-> ToInt(s, i + 5, i + 6),
          g3 |-> ToInt(s, i + 8, i + 9)]>>
    ELSE NULL

\* datePatterns[3] at position i: (\d{2})-(\d{2})-(\d{4})
DatePattern3At(s, i) ==
    IF /\ DigitsAt(s, i, 2)
       /\ At(s, i + 2) = "-"
       /\ DigitsAt(s, i + 3, 2)
       /\ At(s, i + 5) = "-"
       /\ DigitsAt(s, i + 6, 4)
    THEN <<[g1 |-> ToInt(s, i, i + 1), g2 |-> ToInt(s, i + 3, i + 4),
          g3 |-> ToInt(s, i + 6, i + 9)]>>
    ELSE NULL

\* dateStr.match(datePatterns[k]): the capture groups of the leftmost match
DatePattern0(s) ==
    LET p == Leftmost({i \in 1..Len(s) : DatePattern0At(s, i) # NULL})
    IN  IF p = 0 THEN NULL ELSE DatePattern0At(s, p)
DatePattern1(s) ==
    LET p == Leftmost({i \in 1..Len(s) : DatePattern1At(s, i) # NULL})
    IN  IF p = 0 THEN NULL ELSE DatePattern1At(s, p)
DatePattern2(s) ==
    LET p == Leftmost({i \in 1..Len(s) : DatePattern2At(s, i) # NULL})
    IN  IF p = 0 THEN NULL ELSE DatePattern2At(s, p)
DatePattern3(s) ==
    LET p == Leftmost({i \in 1..Len(s) : DatePattern3At(s, i) # NULL})
    IN  IF p = 0 THEN NULL ELSE DatePattern3At(s, p)

\* the branches of parseDate on a match m of the pattern with index k
DateOfMatch(k, m) ==
    IF k = 0 THEN NewDate(m.g3, m.g2, m.g1)
    ELSE IF k = 1 THEN NewDate(m.g3, m.g2 - 1, m.g1)
    ELSE IF k = 2 THEN NewDate(m.g1, m.g2 - 1, m.g3)
    ELSE NewDate(m.g3, m.g2 - 1, m.g1)

\* FirstDate trying YYYY-MM-DD before the other three formats
FirstDateIsoFirst(m0, m1, m2, m3) ==
    IF m2 # NULL THEN << DateOfMatch(2, m2[1]) >>
    ELSE IF m0 # NULL THEN << DateOfMatch(0, m0[1]) >>
    ELSE IF m1 # NULL THEN << DateOfMatch(1, m1[1]) >>
    ELSE IF m3 # NULL THEN << DateOfMatch(3, m3[1]) >>
    ELSE NULL

\* the loop of parseDate, given the matches m0..m3 of the four patterns:
\* the first pattern that matches decides
FirstDate(m0, m1, m2, m3) ==
    IF m0 # NULL THEN << DateOfMatch(0, m0[1]) >>
    ELSE IF m1 # NULL THEN << DateOfMatch(1, m1[1]) >>
    ELSE IF m2 # NULL THEN << DateOfMatch(2, m2[1]) >>
    ELSE IF m3 # NULL THEN << DateOfMatch(3, m3[1]) >>
    ELSE NULL

\* parseDate: the first pattern, in table order, that matches anywhere
parseDate(dateStr) ==
    FirstDate(DatePattern0(dateStr), DatePattern1(dateStr),
              DatePattern2(dateStr), DatePattern3(dateStr))

(***************************************************************************)
(* Amounts                                                                 *)
(***************************************************************************)
\* match[1].replace(/,/g, "")
RemoveCommas(s) == SelectSeq(s, LAMBDA c : c # ",")

\* parseFloat of a string of the shape the patterns capture (an optional
\* minus sign, digits, at most two decimals), in hundredths; NULL for NaN
parseFloat(str) ==
    LET neg  == At(str, 1) = "-"
        a    == IF neg THEN 2 ELSE 1
        b    == RunEnd(str, a, Digits)
        frac == IF At(str, b) = "." THEN RunEnd(str, b + 1, Digits) - (b + 1) ELSE 0
        f    == IF frac = 0 THEN 0
                ELSE IF frac = 1 THEN 10 * ToInt(str, b + 1, b + 1)
                ELSE ToInt(str, b + 1, b + 2)
        v    == 100 * ToInt(str, a, b - 1) + f
    IN  IF b = a /\ frac = 0 THEN NULL
        ELSE << IF neg THEN 0 - v ELSE v >>

\* Math.abs
Abs(x) == IF x < 0 THEN 0 - x ELSE x

\* the greedy tail (?:,\d{3})* from position i: the position after it
RECURSIVE ThousandsEnd(_, _)
ThousandsEnd(s, i) ==
    IF At(s, i) = "," /\ DigitsAt(s, i + 1, 3) THEN ThousandsEnd(s, i + 4) ELSE i

\* the optional tail (?:\.\d{2})? from position i: the position after it
DecimalsEnd(s, i) == IF At(s, i) = "." /\ DigitsAt(s, i + 1, 2) THEN i + 3 ELSE i

\* the number of digits a greedy \d{1,3} takes at position i
UpTo3Digits(s, i) ==
    IF DigitsAt(s, i, 3) THEN 3 ELSE IF DigitsAt(s, i, 2) THEN 2
    ELSE IF DigitsAt(s, i, 1) THEN 1 ELSE 0

\* the tail ([\d,]+(?:\.\d{2})?) from position a: the capture, NULL if none
CurrencyNumberAt(s, a) ==
    LET b == RunEnd(s, a, DigitComma)
    IN  IF b > a THEN << Sub(s, a, DecimalsEnd(s, b) - 1) >> ELSE NULL

\* amountPatterns[0] at i: Amount[:\s]+(-?\d{1,3}(?:,\d{3})*(?:\.\d{2})?), flag i
AmountPattern0At(s, i) ==
    LET a == i + 6
        b == RunEnd(s, a, ColonSpace)
        c == IF At(s, b) = "-" THEN b + 1 ELSE b
        n == UpTo3Digits(s, c)
        e == DecimalsEnd(s, ThousandsEnd(s, c + n))
    IN  IF StartsWithI(s, i, Chars("amount")) /\ b > a /\ n > 0
        THEN << Sub(s, b, e - 1) >> ELSE NULL

\* amountPatterns[1] at i: the rupee sign, \s*, ([\d,]+(?:\.\d{2})?)
AmountPattern1At(s, i) ==
    IF At(s, i) = "₹" THEN CurrencyNumberAt(s, RunEnd(s, i + 1, Whitespace))
    ELSE NULL

\* amountPatterns[2] at i: Rs\.?\s*([\d,]+(?:\.\d{2})?), flag i
AmountPattern2At(s, i) ==
    LET a == IF At(s, i + 2) = "." THEN i + 3 ELSE i + 2
    IN  IF StartsWithI(s, i, Chars("rs"))
        THEN CurrencyNumberAt(s, RunEnd(s, a, Whitespace))
        ELSE NULL

\* amountPatterns[3] at i: \$\s*([\d,]+(?:\.\d{2})?)
AmountPattern3At(s, i) ==
    IF At(s, i) = "$" THEN CurrencyNumberAt(s, RunEnd(s, i + 1, Whitespace))
    ELSE NULL

\* the tail ([\d,]+\.\d{2})(?:\s+(?:Dr|Cr|debit|credit)) from position n
MarkedNumberAt(s, n) ==
    LET b == RunEnd(s, n, DigitComma)
        c == b + 3
        d == RunEnd(s, c, Whitespace)
    IN  IF /\ b > n
           /\ At(s, b) = "."
           /\ DigitsAt(s, b + 1, 2)
           /\ d > c
           /\ \/ StartsWithI(s, d, Chars("dr"))
              \/ StartsWithI(s, d, Chars("cr"))
              \/ StartsWithI(s, d, Chars("debit"))
              \/ StartsWithI(s, d, Chars("credit"))
        THEN << Sub(s, n, c - 1) >> ELSE NULL

\* amountPatterns[4] at i: (?:^|[^\d]) and then the marked number, flag i
AmountPattern4At(s, i) ==
    IF i = 1 /\ MarkedNumberAt(s, 1) # NULL THEN MarkedNumberAt(s, 1)
    ELSE IF At(s, i) \notin Digits THEN MarkedNumberAt(s, i + 1)
    ELSE NULL

\* text.match(amountPatterns[k]): the capture of the leftmost match
AmountPattern0(s) ==
    LET p == Leftmost({i \in 1..Len(s) : AmountPattern0At(s, i) # NULL})
    IN  IF p = 0 THEN NULL ELSE AmountPattern0At(s, p)
AmountPattern1(s) ==
    LET p == Leftmost({i \in 1..Len(s) : AmountPattern1At(s, i) # NULL})
    IN  IF p = 0 THEN NULL ELSE AmountPattern1At(s, p)
AmountPattern2(s) ==
    LET p == Leftmost({i \in 1..Len(s) : AmountPattern2At(s, i) # NULL})
    IN  IF p = 0 THEN NULL ELSE AmountPattern2At(s, p)
AmountPattern3(s) ==
    LET p == Leftmost({i \in 1..Len(s) : AmountPattern3At(s, i) # NULL})
    IN  IF p = 0 THEN NULL ELSE AmountPattern3At(s, p)
AmountPattern4(s) ==
    LET p == Leftmost({i \in 1..Len(s) : AmountPattern4At(s, i) # NULL})
    IN  IF p = 0 THEN NULL ELSE AmountPattern4At(s, p)

\* one pattern of the loop of parseAmount: the parseFloat of the capture of
\* the match, NULL when the pattern does not match or the capture is not a
\* number (the loop then goes on to the next pattern)
AmountOfMatch(match) ==
    IF match = NULL THEN NULL ELSE parseFloat(RemoveCommas(match[1]))

\* the loop of parseAmount: the first of the five numbers that is one
FirstAmount(a0, a1, a2, a3, a4) ==
    IF a0 # NULL THEN a0 ELSE IF a1 # NULL THEN a1
    ELSE IF a2 # NULL THEN a2 ELSE IF a3 # NULL THEN a3 ELSE a4

\* the number parseAmount finds in the text, before Math.abs
AmountIn(text) ==
    FirstAmount(AmountOfMatch(AmountPattern0(text)),
                AmountOfMatch(AmountPattern1(text)),
                AmountOfMatch(AmountPattern2(text)),
                AmountOfMatch(AmountPattern3(text)),
                AmountOfMatch(AmountPattern4(text)))

\* the return value of parseAmount for the number hit with its sign
SignedAmountData(hit) ==
    IF hit = NULL THEN NULL ELSE << [amount |-> hit[1], confidence |-> 95] >>

\* the return value of parseAmount for the number hit
AmountData(hit) ==
    IF hit = NULL THEN NULL ELSE << [amount |-> Abs(hit[1]), confidence |-> 95] >>

\* parseAmount returning the signed number (Math.abs left out)
parseAmountSigned(text) == SignedAmountData(AmountIn(text))

\* parseAmount
parseAmount(text) == AmountData(AmountIn(text))

(***************************************************************************)
(* Type, category, balance                                                 *)
(***************************************************************************)
debitIndicators == << Chars("debit"), Chars("paid"), Chars("spent"),
                      Chars("charges"), Chars("debited"), Chars("withdrawn"),
                      Chars("dr"), Chars("-") >>
\* the last one is the two characters backslash and plus
creditIndicators == << Chars("credit"), Chars("deposited"), Chars("received"),
                       Chars("refund"), Chars("credited"), Chars("cr"),
                       <<"\\", "+">> >>

\* indicators.filter(ind => lowerText.includes(ind)).length
Score(lowerText, indicators) ==
    Cardinality({k \in 1..Len(indicators) : includes(lowerText, indicators[k])})

\* /Amount[:\s]+-/ at position i (case-sensitive)
NegativeLabelAt(s, i) ==
    LET b == RunEnd(s, i + 6, ColonSpace)
    IN  StartsWith(s, i, Chars("Amount")) /\ b > i + 6 /\ At(s, b) = "-"

\* /-\d{1,3}(?:,\d{3})*(?:\.\d{2})?/ at position i
NegativeNumberAt(s, i) == At(s, i) = "-" /\ DigitsAt(s, i + 1, 1)

\* the condition of the early return of determineTransactionType
NegativeSign(text) ==
    \/ \E i \in 1..Len(text) : NegativeLabelAt(text, i)
    \/ \E i \in 1..Len(text) : NegativeNumberAt(text, i)

\* the keyword comparison of determineTransactionType
KeywordType(text) ==
    LET lowerText   == toLowerCase(text)
        debitScore  == Score(lowerText, debitIndicators)
        creditScore == Score(lowerText, creditIndicators)
    IN  IF debitScore > creditScore THEN "debit" ELSE "credit"

\* determineTransactionType without the early return on a minus sign
determineTransactionTypeByKeywords(text) == KeywordType(text)

\* determineTransactionType
determineTransactionType(text) ==
    IF NegativeSign(text) THEN "debit" ELSE KeywordType(text)

\* categoryKeywords, in the order of Object.entries
categoryKeywords == <<
    [category |-> "food",
     keywords |-> {Chars("starbucks"), Chars("coffee"), Chars("restaurant"),
                   Chars("pizza"), Chars("burger"), Chars("food"), Chars("cafe")}],
    [category |-> "transport",
     keywords |-> {Chars("uber"), Chars("taxi"), Chars("ola"), Chars("bus"),
                   Chars("train"), Chars("flight"), Chars("airport")}],
    [category |-> "shopping",
     keywords |-> {Chars("amazon"), Chars("flipkart"), Chars("mall"),
                   Chars("store"), Chars("shop"), Chars("order")}],
    [category |-> "utilities",
     keywords |-> {Chars("electric"), Chars("water"), Chars("gas"),
                   Chars("internet"), Chars("phone"), Chars("bill")}] >>

\* categorizeTransaction without toLowerCase: the keywords are looked for
\* in the description as it is written
categorizeTransactionCaseSensitive(description) ==
    LET hit == {k \in 1..Len(categoryKeywords) :
                   \E w \in categoryKeywords[k].keywords : includes(description, w)}
    IN  IF hit = {} THEN NULL ELSE << categoryKeywords[Min(hit)].category >>

\* categorizeTransaction: the first category with a keyword in the text
categorizeTransaction(description) ==
    LET lowerDesc == toLowerCase(description)
        hit == {k \in 1..Len(categoryKeywords) :
                   \E w \in categoryKeywords[k].keywords : includes(lowerDesc, w)}
    IN  IF hit = {} THEN NULL ELSE << categoryKeywords[Min(hit)].category >>

\* the optional prefix (?:X|Rs\.?)? with X the rupee sign, flag i, from i
CurrencyEnd(s, i) ==
    IF At(s, i) = "₹" THEN i + 1
    ELSE IF StartsWithI(s, i, Chars("rs"))
         THEN (IF At(s, i + 2) = "." THEN i + 3 ELSE i + 2)
    ELSE i

\* the tail (-?\d{1,}(?:,\d{3})*(?:\.\d{2})?) from position a
BalanceNumberAt(s, a) ==
    LET c == IF At(s, a) = "-" THEN a + 1 ELSE a
        d == RunEnd(s, c, Digits)
    IN  IF d > c THEN << Sub(s, a, DecimalsEnd(s, ThousandsEnd(s, d)) - 1) >>
        ELSE NULL

\* balancePatterns[0] at i:
\* Balance[:\s]+(?:after\s+transaction[:\s]+)?(?:X|Rs\.?)?[\s]*(number), flag i
BalancePattern0At(s, i) ==
    LET a  == i + 7
        b  == RunEnd(s, a, ColonSpace)
        w  == RunEnd(s, b + 5, Whitespace)
        t  == RunEnd(s, w + 11, ColonSpace)
        after == /\ StartsWithI(s, b, Chars("after"))
                 /\ w > b + 5
                 /\ StartsWithI(s, w, Chars("transaction"))
                 /\ t > w + 11
        c  == IF after THEN t ELSE b
    IN  IF StartsWithI(s, i, Chars("balance")) /\ b > a
        THEN BalanceNumberAt(s, RunEnd(s, CurrencyEnd(s, c), Whitespace))
        ELSE NULL

\* balancePatterns[1] at i:
\* Available[:\s]+(?:Balance)?[:\s->]*(?:X|Rs\.?)?[\s]*(number), flag i
BalancePattern1At(s, i) ==
    LET a == i + 9
        b == RunEnd(s, a, ColonSpace)
        c == IF StartsWithI(s, b, Chars("balance")) THEN b + 7 ELSE b
        d == RunEnd(s, c, ColonSpace \cup {"→"})
    IN  IF StartsWithI(s, i, Chars("available")) /\ b > a
        THEN BalanceNumberAt(s, RunEnd(s, CurrencyEnd(s, d), Whitespace))
        ELSE NULL

\* balancePatterns[2] at i: Bal[\s]+(number), flag i
BalancePattern2At(s, i) ==
    LET b == RunEnd(s, i + 3, Whitespace)
    IN  IF StartsWithI(s, i, Chars("bal")) /\ b > i + 3
        THEN BalanceNumberAt(s, b) ELSE NULL

\* text.match(balancePatterns[k]): the capture of the leftmost match
BalancePattern0(s) ==
    LET p == Leftmost({i \in 1..Len(s) : BalancePattern0At(s, i) # NULL})
    IN  IF p = 0 THEN NULL ELSE BalancePattern0At(s, p)
BalancePattern1(s) ==
    LET p == Leftmost({i \in 1..Len(s) : BalancePattern1At(s, i) # NULL})
    IN  IF p = 0 THEN NULL ELSE BalancePattern1At(s, p)
BalancePattern2(s) ==
    LET p == Leftmost({i \in 1..Len(s) : BalancePattern2At(s, i) # NULL})
    IN  IF p = 0 THEN NULL ELSE BalancePattern2At(s, p)

\* the loop of extractBalance: the first pattern that matches decides
FirstBalance(m0, m1, m2) ==
    IF m0 # NULL THEN parseFloat(RemoveCommas(m0[1]))
    ELSE IF m1 # NULL THEN parseFloat(RemoveCommas(m1[1]))
    ELSE IF m2 # NULL THEN parseFloat(RemoveCommas(m2[1]))
    ELSE NULL

\* extractBalance: the number of the first pattern that matches, in hundredths
extractBalance(text) ==
    FirstBalance(BalancePattern0(text), BalancePattern1(text), BalancePattern2(text))

(***************************************************************************)
(* Description cleaning                                                    *)
(***************************************************************************)
\* String.prototype.split on the one-character separator sep
RECURSIVE Split(_, _)
Split(s, sep) ==
    LET hit == {i \in 1..Len(s) : s[i] = sep}
    IN  IF hit = {} THEN << s >>
        ELSE << Sub(s, 1, Min(hit) - 1) >> \o Split(Sub(s, Min(hit) + 1, Len(s)), sep)

\* Array.prototype.join with a single space
RECURSIVE JoinSpace(_)
JoinSpace(parts) ==
    IF Len(parts) = 0 THEN <<>>
    ELSE IF Len(parts) = 1 THEN parts[1]
    ELSE parts[1] \o << " " >> \o JoinSpace(Tail(parts))

\* /^\d{1,2}\/\d{1,2}\/\d{4}/.test(line)
StartsWithSlashDate(line) == DatePattern1At(line, 1) # NULL

\* the filter of parseSingleTransaction over the trimmed lines
IsDescLine(line) ==
    LET lower == toLowerCase(line)
    IN  IF StartsWith(lower, 1, Chars("date:")) THEN FALSE
        ELSE IF StartsWith(lower, 1, Chars("amount:")) THEN FALSE
        ELSE IF StartsWith(lower, 1, Chars("balance")) THEN FALSE
        ELSE IF StartsWith(lower, 1, Chars("available balance")) THEN FALSE
        ELSE IF StartsWithSlashDate(line) THEN FALSE
        ELSE IF StartsWith(lower, 1, Chars("description:"))
             THEN Len(trim(Sub(line, 13, Len(line)))) > 0
        ELSE Len(line) > 0

\* /^description:\s*/i
StripDescriptionPrefix(d) ==
    IF StartsWithI(d, 1, Chars("description:"))
    THEN Sub(d, RunEnd(d, 13, Whitespace), Len(d)) ELSE d

\* /txn\d+/gi
TxnIdLen(s, i) ==
    LET e == RunEnd(s, i + 3, Digits)
    IN  IF StartsWithI(s, i, Chars("txn")) /\ e > i + 3 THEN e - i ELSE 0

\* /\d{4}-\d{2}-\d{2}/g
IsoDateLen(s, i) == IF DatePattern2At(s, i) # NULL THEN 10 ELSE 0

\* the tail [\d,]+(?:\.\d{2})? from position a: the position after it, a if none
NumberEnd(s, a) ==
    LET b == RunEnd(s, a, DigitComma)
    IN  IF b > a THEN DecimalsEnd(s, b) ELSE a

\* /X[\d,]+(?:\.\d{2})?/g with X the rupee sign
RupeeAmountLen(s, i) ==
    LET e == NumberEnd(s, i + 1)
    IN  IF At(s, i) = "₹" /\ e > i + 1 THEN e - i ELSE 0

\* /Rs\.?\s*[\d,]+(?:\.\d{2})?/gi
RsAmountLen(s, i) ==
    LET a == RunEnd(s, IF At(s, i + 2) = "." THEN i + 3 ELSE i + 2, Whitespace)
        e == NumberEnd(s, a)
    IN  IF StartsWithI(s, i, Chars("rs")) /\ e > a THEN e - i ELSE 0

\* /\s+(?:Dr|Cr|debit|credit|debited|credited)\s*/gi: the first alternative
\* that matches is taken, so debited and credited are never reached
TypeWordLen(s, i) ==
    LET a == RunEnd(s, i, Whitespace)
        w == IF StartsWithI(s, a, Chars("dr")) THEN 2
             ELSE IF StartsWithI(s, a, Chars("cr")) THEN 2
             ELSE IF StartsWithI(s, a, Chars("debit")) THEN 5
             ELSE IF StartsWithI(s, a, Chars("credit")) THEN 6
             ELSE 0
    IN  IF a > i /\ w > 0 THEN RunEnd(s, a + w, Whitespace) - i ELSE 0

\* /Bal\s+[\d,]+(?:\.\d{2})?/gi
BalInfoLen(s, i) ==
    LET a == RunEnd(s, i + 3, Whitespace)
        e == NumberEnd(s, a)
    IN  IF StartsWithI(s, i, Chars("bal")) /\ a > i + 3 /\ e > a THEN e - i ELSE 0

\* /Order\s+#[\d-]+/gi
OrderNumberLen(s, i) ==
    LET a == RunEnd(s, i + 5, Whitespace)
        e == RunEnd(s, a + 1, Digits \cup {"-"})
    IN  IF /\ StartsWithI(s, i, Chars("order"))
           /\ a > i + 5
           /\ At(s, a) = "#"
           /\ e > a + 1
        THEN e - i ELSE 0

\* /[*X]/g with X the arrow
SpecialCharLen(s, i) == IF s[i] \in {"*", "→"} THEN 1 ELSE 0

\* /\s+/g
WhitespaceLen(s, i) == RunEnd(s, i, Whitespace) - i

\* the length of the match at position i of the replace pattern named
\* pattern, 0 if there is none (no pattern matches the empty string)
MatchLen(pattern, s, i) ==
    CASE pattern = "txn"     -> TxnIdLen(s, i)
      [] pattern = "isoDate" -> IsoDateLen(s, i)
      [] pattern = "rupee"   -> RupeeAmountLen(s, i)
      [] pattern = "rs"      -> RsAmountLen(s, i)
      [] pattern = "type"    -> TypeWordLen(s, i)
      [] pattern = "bal"     -> BalInfoLen(s, i)
      [] pattern = "order"   -> OrderNumberLen(s, i)
      [] pattern = "special" -> SpecialCharLen(s, i)
      [] pattern = "space"   -> WhitespaceLen(s, i)

\* s.replace(/pattern/g, repl) from position i on, hits being the positions
\* of s where the pattern matches and later those at or after i: the text
\* up to the next match is kept, the match is replaced, and the search
\* goes on after it
RECURSIVE ReplaceFrom(_, _, _, _, _)
ReplaceStep(s, i, pattern, repl, hits, later) ==
    IF later = {} THEN Sub(s, i, Len(s))
    ELSE Sub(s, i, Min(later) - 1) \o repl
         \o ReplaceFrom(s, Min(later) + MatchLen(pattern, s, Min(later)),
                        pattern, repl, hits)

ReplaceFrom(s, i, pattern, repl, hits) ==
    ReplaceStep(s, i, pattern, repl, hits, {j \in hits : j >= i})

\* s.replace(/pattern/g, repl)
ReplaceAll(s, pattern, repl) ==
    ReplaceFrom(s, 1, pattern, repl,
                {j \in 1..Len(s) : MatchLen(pattern, s, j) > 0})

\* DescriptionOrDefault without the placeholder: the description as cleaned
DescriptionAsCleaned(description) == description

\* if (!description || description.length < 2) description = "Transaction"
DescriptionOrDefault(description) ==
    IF Len(description) < 2 THEN Chars("Transaction") ELSE description

\* the description of parseSingleTransaction
CleanDescription(text) ==
    LET lines == Split(text, "\n")
        trimmed == [k \in 1..Len(lines) |-> trim(lines[k])]
        descLines == SelectSeq(trimmed, IsDescLine)
        d0 == StripDescriptionPrefix(trim(JoinSpace(descLines)))
        d1 == ReplaceAll(d0, "txn", <<>>)
        d2 == ReplaceAll(d1, "isoDate", <<>>)
        d3 == ReplaceAll(d2, "rupee", <<>>)
        d4 == ReplaceAll(d3, "rs", <<>>)
        d5 == ReplaceAll(d4, "type", << " " >>)
        d6 == ReplaceAll(d5, "bal", <<>>)
        d7 == ReplaceAll(d6, "order", <<>>)
        d8 == ReplaceAll(d7, "special", << " " >>)
    IN  DescriptionOrDefault(trim(ReplaceAll(d8, "space", << " " >>)))

(***************************************************************************)
(* Records and the two parsing paths                                       *)
(***************************************************************************)
\* a date for a block without one: 1 Jan 1970
DefaultDate(found) == IF found = NULL THEN << NewDate(1970, 0, 1) >> ELSE found

\* Transaction with a confidence that depends on what else was found: 0.10
\* less for a block without a balance
TransactionScored(date, description, amountData, type, balance) ==
    [date        |-> date,
     description |-> description,
     amount      |-> amountData.amount,
     type        |-> type,
     category    |-> categorizeTransaction(description),
     balance     |-> IF balance = NULL \/ balance = << 0 >> THEN NULL ELSE balance,
     confidence  |-> IF balance = NULL THEN amountData.confidence - 10
                     ELSE amountData.confidence]

\* the object parseSingleTransaction returns, from the values it computed
\* (balance: balance || undefined)
Transaction(date, description, amountData, type, balance) ==
    [date        |-> date,
     description |-> description,
     amount      |-> amountData.amount,
     type        |-> type,
     category    |-> categorizeTransaction(description),
     balance     |-> IF balance = NULL \/ balance = << 0 >> THEN NULL ELSE balance,
     confidence  |-> amountData.confidence]

\* parseSingleTransaction after the test for an empty block, with date the
\* result of parseDate and amountData the result of parseAmount
TransactionOf(text, date, amountData) ==
    IF date = NULL THEN NULL
    ELSE IF amountData = NULL THEN NULL
    ELSE << Transaction(date[1], CleanDescription(text), amountData[1],
                        determineTransactionType(text), extractBalance(text)) >>

\* parseSingleTransaction falling back to a default date (1 Jan 1970) when
\* the block has none, instead of giving up on the block
parseSingleTransactionDefaultDate(text) ==
    IF trim(text) = <<>> THEN NULL
    ELSE TransactionOf(text, DefaultDate(parseDate(text)), parseAmount(text))

\* parseSingleTransaction: NULL or the record of the block
parseSingleTransaction(text) ==
    IF trim(text) = <<>> THEN NULL
    ELSE TransactionOf(text, parseDate(text), parseAmount(text))

\* transactionSchema.safeParse(t).success
transactionSchema(t) ==
    /\ Len(t.description) >= 1
    /\ t.amount > 0
    /\ t.type \in {"debit", "credit"}
    /\ t.confidence >= 0 /\ t.confidence <= 100

\* the separator /\n\s*\n/ at position i: the position of its last
\* newline, 0 if it does not match there
SeparatorEnd(s, i) ==
    LET e   == RunEnd(s, i + 1, Whitespace)
        nls == {q \in (i + 1)..(e - 1) : s[q] = "\n"}
    IN  IF At(s, i) = "\n" /\ nls # {} THEN Max(nls) ELSE 0

\* text.split(/\n\s*\n/)
RECURSIVE SplitBlocks(_)
SplitBlocks(s) ==
    LET hit == {i \in 1..Len(s) : SeparatorEnd(s, i) # 0}
    IN  IF hit = {} THEN << s >>
        ELSE << Sub(s, 1, Min(hit) - 1) >>
             \o SplitBlocks(Sub(s, SeparatorEnd(s, Min(hit)) + 1, Len(s)))

\* the blocks parseTransactionText loops over (none for the empty string)
BlocksOf(text) == IF text = <<>> THEN <<>> ELSE SplitBlocks(text)

\* PushValid with unshift for push: the newest record comes first
PushValidFirst(parsed, transaction) ==
    IF transaction # NULL /\ transactionSchema(transaction[1])
    THEN << transaction[1] >> \o parsed ELSE parsed

\* if (transaction) { validated = safeParse(transaction); if (validated.success)
\* parsed.push(transaction) }
PushValid(parsed, transaction) ==
    IF transaction # NULL /\ transactionSchema(transaction[1])
    THEN Append(parsed, transaction[1]) ELSE parsed

\* PushBlock giving a block without a date the date of the record before
PushBlockCarryDate(parsed, block) ==
    IF parsed = <<>> \/ trim(block) = <<>> \/ parseDate(block) # NULL
    THEN PushValid(parsed, parseSingleTransaction(block))
    ELSE PushValid(parsed, TransactionOf(block, << parsed[Len(parsed)].date >>,
                                         parseAmount(block)))

\* one iteration of the loop of parseTransactionText: parsed after the block
PushBlock(parsed, block) == PushValid(parsed, parseSingleTransaction(block))

\* parseTransactionText
RECURSIVE ParseBlocks(_, _)
ParseBlocks(blocks, parsed) ==
    IF blocks = <<>> THEN parsed
    ELSE ParseBlocks(Tail(blocks), PushBlock(parsed, Head(blocks)))
parseTransactionText(text) == ParseBlocks(BlocksOf(text), <<>>)

\* transactions.reduce((sum, t) => sum + t.confidence, 0)
RECURSIVE SumConfidence(_)
SumConfidence(ts) ==
    IF ts = <<>> THEN 0 ELSE ts[1].confidence + SumConfidence(Tail(ts))

\* calculateBatchConfidence without the penalty for a single record
calculateBatchConfidenceNoPenalty(transactions) ==
    IF Len(transactions) = 0 THEN [num |-> 0, den |-> 1]
    ELSE LET c == [num |-> SumConfidence(transactions),
                   den |-> 100 * Len(transactions)]
         IN  IF c.num > c.den THEN [num |-> 1, den |-> 1] ELSE c

\* calculateBatchConfidence as the fraction num / den
calculateBatchConfidence(transactions) ==
    IF Len(transactions) = 0 THEN [num |-> 0, den |-> 1]
    ELSE LET sum == SumConfidence(transactions)
             n   == Len(transactions)
             c   == IF n = 1 THEN [num |-> 9 * sum, den |-> 10 * 100 * n]
                    ELSE [num |-> sum, den |-> 100 * n]
         IN  IF c.num > c.den THEN [num |-> 1, den |-> 1] ELSE c

\* the rows of the fallback: text.split("\n").filter(line => line.includes(","))
CsvRows(text) == SelectSeq(Split(text, "\n"), LAMBDA line : includes(line, << "," >>))

\* the record the fallback builds from a row, its parts, its date and amount
CsvRecord(row, parts, date, amount, confidence) ==
    [date        |-> date,
     description |-> IF trim(parts[3]) = <<>>
                     THEN Chars("Parsed Transaction") ELSE trim(parts[3]),
     amount      |-> amount.amount,
     type        |-> determineTransactionType(row),
     category    |-> NULL,
     balance     |-> NULL,
     confidence  |-> confidence]

\* if (date && amount) transactions.push({...})
PushParsed(transactions, row, parts, date, amount) ==
    IF date # NULL /\ amount # NULL
    THEN Append(transactions, CsvRecord(row, parts, date[1], amount[1], 75))
    ELSE transactions

\* PushParsed testing the amount only (if (amount) for if (date && amount)):
\* the record of a row without a date has no date
PushParsedNoDateCheck(transactions, row, parts, date, amount) ==
    IF amount # NULL
    THEN Append(transactions,
                CsvRecord(row, parts, IF date = NULL THEN NULL ELSE date[1],
                          amount[1], 75))
    ELSE transactions

\* PushParsed with the confidence written as a percentage (75 for 0.75)
PushParsedPercent(transactions, row, parts, date, amount) ==
    IF date # NULL /\ amount # NULL
    THEN Append(transactions, CsvRecord(row, parts, date[1], amount[1], 7500))
    ELSE transactions

\* the body of the row loop, with parts the row split at the commas
PushParts(transactions, row, parts) ==
    IF Len(parts) >= 3
    THEN PushParsed(transactions, row, parts, parseDate(parts[1]), parseAmount(parts[2]))
    ELSE transactions

\* PushParts with PushParsedNoDateCheck
PushPartsNoDateCheck(transactions, row, parts) ==
    IF Len(parts) >= 3
    THEN PushParsedNoDateCheck(transactions, row, parts,
                               parseDate(parts[1]), parseAmount(parts[2]))
    ELSE transactions

\* PushParts with PushParsedPercent
PushPartsPercent(transactions, row, parts) ==
    IF Len(parts) >= 3
    THEN PushParsedPercent(transactions, row, parts,
                           parseDate(parts[1]), parseAmount(parts[2]))
    ELSE transactions

\* the row loop without the test of the date
PushRowNoDateCheck(transactions, row) ==
    PushPartsNoDateCheck(transactions, row, Split(row, ","))

\* the row loop with the confidence as a percentage
PushRowPercent(transactions, row) ==
    PushPartsPercent(transactions, row, Split(row, ","))

\* one iteration of the row loop of parseTransactionsWithFallbacks
PushRow(transactions, row) == PushParts(transactions, row, Split(row, ","))

(***************************************************************************)
(* One call of parseTransactionsWithFallbacks(text)                        *)
(***************************************************************************)
VARIABLES
    text,           \* the argument
    pc,             \* the position of the call
    blocks,         \* parseTransactionText: text.split(/\n\s*\n/)
    bi,             \* parseTransactionText: the index of the next block
    rows,           \* the comma-containing lines of the fallback
    ri,             \* the index of the next row
    transactions,   \* parsed / transactions: the records so far
    result,         \* NULL until the call returns, then << the batch >>
    now,            \* the server: Date.now()
    windows,        \* the server: the Map of rateLimit.ts, key -> Window
    db,             \* the server: the tables behind prisma
    req             \* the server: the requests in progress and answered

\* the variables of a call of the parser
parser == << text, pc, blocks, bi, rows, ri, transactions, result >>

\* the variables of the server
server == << now, windows, db, req >>

vars == << text, pc, blocks, bi, rows, ri, transactions, result,
           now, windows, db, req >>

\* no server: the parser is called on its own
NoServer ==
    /\ now = 0
    /\ windows = <<>>
    /\ db = <<>>
    /\ req = <<>>

\* the longest text is MaxTokens tokens
MaxTokens == 3

\* the pieces the argument texts are put together from
Tokens == { Chars("11 Dec 2025 "),
            Chars("2025-12-11, "),
            Chars("12/11/2025 $5.50 Cr "),
            Chars("Amount: -420.00, "),
            Chars("Amount: 0 "),
            Chars("₹1,250.00 "),
            Chars("₹, "),
            Chars("-420, STARBUCKS"),
            Chars("refund "),
            Chars("!@#$%^&*() "),
            Chars("\n\n"),
            Chars("\n") }

RECURSIVE Concat(_)
Concat(ss) == IF ss = <<>> THEN <<>> ELSE Head(ss) \o Concat(Tail(ss))

TokenSeqs == UNION {[1..n -> Tokens] : n \in 0..MaxTokens}
Texts == {Concat(ts) : ts \in TokenSeqs}

Init ==
    /\ text \in Texts
    /\ pc = "call"
    /\ blocks = <<>>
    /\ bi = 1
    /\ rows = <<>>
    /\ ri = 1
    /\ transactions = <<>>
    /\ result = NULL
    /\ NoServer

\* parseTransactionText is entered: the text is split into blocks
Enter ==
    /\ pc = "call"
    /\ blocks' = BlocksOf(text)
    /\ bi' = 1
    /\ pc' = "standard"
    /\ UNCHANGED << text, rows, ri, transactions, result >>
    /\ UNCHANGED server

\* one iteration of the block loop of parseTransactionText
StandardBlock ==
    /\ pc = "standard"
    /\ bi <= Len(blocks)
    /\ transactions' = PushBlock(transactions, blocks[bi])
    /\ bi' = bi + 1
    /\ UNCHANGED << text, pc, blocks, rows, ri, result >>
    /\ UNCHANGED server

\* the standard path found records: return them
ReturnStandard ==
    /\ pc = "standard"
    /\ bi > Len(blocks)
    /\ Len(transactions) > 0
    /\ result' = << [transactions |-> transactions,
                     confidence   |-> calculateBatchConfidence(transactions),
                     parseMethod  |-> "standard"] >>
    /\ pc' = "done"
    /\ UNCHANGED << text, blocks, bi, rows, ri, transactions >>
    /\ UNCHANGED server

\* EnterCsv without the early return: the rows are tried whenever the text
\* has a comma
EnterCsvAlways ==
    /\ pc = "standard"
    /\ bi > Len(blocks)
    /\ includes(text, << "," >>)
    /\ rows' = CsvRows(text)
    /\ ri' = 1
    /\ pc' = "csv"
    /\ UNCHANGED << text, blocks, bi, transactions, result >>
    /\ UNCHANGED server

\* the standard path found nothing and the text has a comma: try the rows
EnterCsv ==
    /\ pc = "standard"
    /\ bi > Len(blocks)
    /\ Len(transactions) = 0
    /\ includes(text, << "," >>)
    /\ rows' = CsvRows(text)
    /\ ri' = 1
    /\ pc' = "csv"
    /\ UNCHANGED << text, blocks, bi, transactions, result >>
    /\ UNCHANGED server

\* the standard path found nothing and the text has no comma
SkipCsv ==
    /\ pc = "standard"
    /\ bi > Len(blocks)
    /\ Len(transactions) = 0
    /\ ~ includes(text, << "," >>)
    /\ pc' = "afterCsv"
    /\ UNCHANGED << text, blocks, bi, rows, ri, transactions, result >>
    /\ UNCHANGED server

\* one iteration of the row loop of the fallback
CsvRow ==
    /\ pc = "csv"
    /\ ri <= Len(rows)
    /\ transactions' = PushRow(transactions, rows[ri])
    /\ ri' = ri + 1
    /\ UNCHANGED << text, pc, blocks, bi, rows, result >>
    /\ UNCHANGED server

\* the row loop is over
CsvDone ==
    /\ pc = "csv"
    /\ ri > Len(rows)
    /\ pc' = "afterCsv"
    /\ UNCHANGED << text, blocks, bi, rows, ri, transactions, result >>
    /\ UNCHANGED server

\* ReturnCsv with the tag of the first return statement
ReturnCsvTaggedStandard ==
    /\ pc = "afterCsv"
    /\ Len(transactions) > 0
    /\ result' = << [transactions |-> transactions,
                     confidence   |-> calculateBatchConfidence(transactions),
                     parseMethod  |-> "standard"] >>
    /\ pc' = "done"
    /\ UNCHANGED << text, blocks, bi, rows, ri, transactions >>
    /\ UNCHANGED server

\* the fallback found records: return them
ReturnCsv ==
    /\ pc = "afterCsv"
    /\ Len(transactions) > 0
    /\ result' = << [transactions |-> transactions,
                     confidence   |-> calculateBatchConfidence(transactions),
                     parseMethod  |-> "csv_fallback"] >>
    /\ pc' = "done"
    /\ UNCHANGED << text, blocks, bi, rows, ri, transactions >>
    /\ UNCHANGED server

\* neither path found a record
ReturnFailed ==
    /\ pc = "afterCsv"
    /\ Len(transactions) = 0
    /\ result' = << [transactions |-> <<>>,
                     confidence   |-> [num |-> 0, den |-> 1],
                     parseMethod  |-> "failed"] >>
    /\ pc' = "done"
    /\ UNCHANGED << text, blocks, bi, rows, ri, transactions >>
    /\ UNCHANGED server

Next ==
    \/ Enter
    \/ StandardBlock
    \/ ReturnStandard
    \/ EnterCsv
    \/ SkipCsv
    \/ CsvRow
    \/ CsvDone
    \/ ReturnCsv
    \/ ReturnFailed

Spec == Init /\ [][Next]_vars

(***************************************************************************)
(* determineTransactionType on its own                                     *)
(***************************************************************************)
\* the longest classified text is MaxTypeTokens tokens
MaxTypeTokens == 2

TypeTokens == { Chars("paid "), Chars("refund "), Chars("Cr "), Chars("Dr "),
                Chars("debited "), Chars("credited "), Chars("received "),
                Chars("- "), Chars("\\+ "), Chars("Amount: -"), Chars("-5 "),
                Chars("x ") }

TypeTexts == {Concat(ts) : ts \in UNION {[1..n -> TypeTokens] : n \in 0..MaxTypeTokens}}

InitType ==
    /\ text \in TypeTexts
    /\ pc = "type"
    /\ blocks = <<>>
    /\ bi = 1
    /\ rows = <<>>
    /\ ri = 1
    /\ transactions = <<>>
    /\ result = NULL
    /\ NoServer

\* a call of determineTransactionType(text)
Classify ==
    /\ pc = "type"
    /\ result' = << determineTransactionType(text) >>
    /\ pc' = "done"
    /\ UNCHANGED << text, blocks, bi, rows, ri, transactions >>
    /\ UNCHANGED server

NextType == Classify

SpecType == InitType /\ [][NextType]_vars

(***************************************************************************)
(* calculateBatchConfidence on its own                                     *)
(***************************************************************************)
\* the longest list of records is MaxBatch
MaxBatch == 3

\* the record confidences tried, in hundredths
ConfidenceValues == {0, 50, 75, 90, 95, 100, 120}

\* a record as the tests of calculateBatchConfidence build it
TestRecord(c) ==
    [date |-> [year |-> 2025, month |-> 11, day |-> 11],
     description |-> Chars("Test"), amount |-> 10000, type |-> "debit",
     category |-> NULL, balance |-> NULL, confidence |-> c]

InitBatch ==
    /\ text = <<>>
    /\ pc = "batch"
    /\ blocks = <<>>
    /\ bi = 1
    /\ rows = <<>>
    /\ ri = 1
    /\ transactions \in {[k \in 1..Len(cs) |-> TestRecord(cs[k])] :
                            cs \in UNION {[1..n -> ConfidenceValues] : n \in 0..MaxBatch}}
    /\ result = NULL
    /\ NoServer

\* a call of calculateBatchConfidence(transactions)
BatchConfidence ==
    /\ pc = "batch"
    /\ result' = << calculateBatchConfidence(transactions) >>
    /\ pc' = "done"
    /\ UNCHANGED << text, blocks, bi, rows, ri, transactions >>
    /\ UNCHANGED server

NextBatch == BatchConfidence

SpecBatch == InitBatch /\ [][NextBatch]_vars

(***************************************************************************)
(* parseDate on its own                                                    *)
(***************************************************************************)
\* the longest date text is MaxDateTokens tokens
MaxDateTokens == 3

\* one date in each of the four formats, dates with a component out of
\* range (day 32 of month 13, 31 February, day 0 of month 0) and a word
DateTokens == { Chars("11 Dec 2025 "), Chars("05/03/2024 "),
                Chars("2023-07-09 "), Chars("21-08-2022 "),
                Chars("32/13/2025 "), Chars("31-02-2024 "),
                Chars("2021-00-00 "), Chars("x ") }

DateTexts == {Concat(ts) : ts \in UNION {[1..n -> DateTokens] : n \in 0..MaxDateTokens}}

InitDate ==
    /\ text \in DateTexts
    /\ pc = "date"
    /\ blocks = <<>>
    /\ bi = 1
    /\ rows = <<>>
    /\ ri = 1
    /\ transactions = <<>>
    /\ result = NULL
    /\ NoServer

\* a call of parseDate(text)
ParseDate ==
    /\ pc = "date"
    /\ result' = << parseDate(text) >>
    /\ pc' = "done"
    /\ UNCHANGED << text, blocks, bi, rows, ri, transactions >>
    /\ UNCHANGED server

NextDate == ParseDate

SpecDate == InitDate /\ [][NextDate]_vars

(***************************************************************************)
(* parseAmount on its own                                                  *)
(***************************************************************************)
\* the longest amount text is MaxAmountTokens tokens
MaxAmountTokens == 2

\* the amounts the texts write: the literal, the index in amountPatterns of
\* the pattern it is written for, and the number it writes, in hundredths
AmountSamples == <<
    [lit |-> Chars("Amount: 1,250.00"), pattern |-> 0, value |-> 125000],
    [lit |-> Chars("Amount: 1250.00"),  pattern |-> 0, value |-> 125000],
    [lit |-> Chars("Amount: -420.00"),  pattern |-> 0, value |-> -42000],
    [lit |-> Chars("Amount: 75"),       pattern |-> 0, value |-> 7500],
    [lit |-> Chars("₹2,999.00"),        pattern |-> 1, value |-> 299900],
    [lit |-> Chars("₹2999"),            pattern |-> 1, value |-> 299900],
    [lit |-> Chars("Rs. 500"),          pattern |-> 2, value |-> 50000],
    [lit |-> Chars("$5.50"),            pattern |-> 3, value |-> 550],
    [lit |-> Chars("1,234.56 Dr"),      pattern |-> 4, value |-> 123456] >>

\* the samples, a currency sign without a number and a word, each followed
\* by a blank
AmountTokens ==
    {AmountSamples[k].lit \o << " " >> : k \in 1..Len(AmountSamples)}
        \cup {Chars("₹, "), Chars("x ")}

AmountTexts ==
    {Concat(ts) : ts \in UNION {[1..n -> AmountTokens] : n \in 0..MaxAmountTokens}}

InitAmount ==
    /\ text \in AmountTexts
    /\ pc = "amount"
    /\ blocks = <<>>
    /\ bi = 1
    /\ rows = <<>>
    /\ ri = 1
    /\ transactions = <<>>
    /\ result = NULL
    /\ NoServer

\* a call of parseAmount(text)
ParseAmount ==
    /\ pc = "amount"
    /\ result' = << parseAmount(text) >>
    /\ pc' = "done"
    /\ UNCHANGED << text, blocks, bi, rows, ri, transactions >>
    /\ UNCHANGED server

NextAmount == ParseAmount

SpecAmount == InitAmount /\ [][NextAmount]_vars

(***************************************************************************)
(* parseTransactionsWithFallbacks on texts made of whole blocks            *)
(***************************************************************************)
\* the longest text is MaxRichTokens blocks
MaxRichTokens == 2

\* blocks and what each one writes: std says whether the block writes a
\* date and a positive amount (the standard path has a record for it),
\* date, amount (hundredths), type and category are what it writes, balance
\* is the number after its balance label (hundredths, NULL without a
\* label), word is a word of its narrative (none if the narrative has
\* fewer than two characters), and row says whether the block is a
\* comma-separated row of a date, an amount and a third field that the
\* standard path has no record for.  The first three are the documented
\* sample texts.
RichSamples == <<
    [lit      |-> Chars("Date: 11 Dec 2025\nDescription: STARBUCKS COFFEE MUMBAI\nAmount: -420.00\nBalance after transaction: 18,420.50"),
     row      |-> FALSE,
     std      |-> TRUE,  date |-> NewDate(2025, 11, 11), amount |-> 42000,
     type     |-> "debit",  balance |-> << 1842050 >>,
     word     |-> Chars("STARBUCKS"), category |-> << "food" >>],
    [lit      |-> Chars("Uber Ride * Airport Drop\n12/11/2025 → ₹1,250.00 debited\nAvailable Balance → ₹17,170.50"),
     row      |-> FALSE,
     std      |-> TRUE,  date |-> NewDate(2025, 10, 12), amount |-> 125000,
     type     |-> "debit",  balance |-> << 1717050 >>,
     word     |-> Chars("Uber"), category |-> << "transport" >>],
    [lit      |-> Chars("txn123 2025-12-10 Amazon.in Order #403-1234567-8901234 ₹2,999.00 Dr Bal 14171.50 Shopping"),
     row      |-> FALSE,
     std      |-> TRUE,  date |-> NewDate(2025, 11, 10), amount |-> 299900,
     type     |-> "debit",  balance |-> << 1417150 >>,
     word     |-> Chars("Amazon"), category |-> << "shopping" >>],
    [lit      |-> Chars("10 Jan 2024 Amount: 75 Balance: -5.00"),
     row      |-> FALSE,
     std      |-> TRUE,  date |-> NewDate(2024, 0, 10), amount |-> 7500,
     type     |-> "debit",  balance |-> << -500 >>,
     word     |-> Chars("Jan"), category |-> NULL],
    [lit      |-> Chars("05/03/2024 $5.50 Cr Balance: 0"),
     row      |-> FALSE,
     std      |-> TRUE,  date |-> NewDate(2024, 2, 5), amount |-> 550,
     type     |-> "credit", balance |-> << 0 >>,
     word     |-> <<>>, category |-> NULL],
    [lit      |-> Chars("2023-07-09 ₹1,250.00"),
     row      |-> FALSE,
     std      |-> TRUE,  date |-> NewDate(2023, 6, 9), amount |-> 125000,
     type     |-> "debit",  balance |-> NULL,
     word     |-> <<>>, category |-> NULL],
    [lit      |-> Chars("21-08-2022 Rs. 500 Bal 1,000.00 cab"),
     row      |-> FALSE,
     std      |-> TRUE,  date |-> NewDate(2022, 7, 21), amount |-> 50000,
     type     |-> "debit",  balance |-> << 100000 >>,
     word     |-> Chars("cab"), category |-> NULL],
    [lit      |-> Chars("2025-12-11, ₹0, x"),
     row      |-> TRUE,
     std      |-> FALSE, date |-> NewDate(2025, 11, 11), amount |-> 0,
     type     |-> "debit",  balance |-> NULL,
     word     |-> Chars("x"), category |-> NULL],
    [lit      |-> Chars("2025-12-10, ₹0, "),
     row      |-> TRUE,
     std      |-> FALSE, date |-> NewDate(2025, 11, 10), amount |-> 0,
     type     |-> "debit",  balance |-> NULL,
     word     |-> <<>>, category |-> NULL],
    [lit      |-> Chars("no date here"),
     row      |-> FALSE,
     std      |-> FALSE, date |-> NewDate(1970, 0, 1), amount |-> 0,
     type     |-> "debit",  balance |-> NULL,
     word     |-> <<>>, category |-> NULL],
    [lit      |-> Chars("2023-07-10 ₹5.00 x"),
     row      |-> FALSE,
     std      |-> TRUE,  date |-> NewDate(2023, 6, 10), amount |-> 500,
     type     |-> "debit",  balance |-> NULL,
     word     |-> <<>>, category |-> NULL] >>

\* every block followed by an empty line, the three sample texts as they
\* are, one block followed by a line of blanks, and one block followed by a
\* line break only
RichTokens ==
    {RichSamples[k].lit \o Chars("\n\n") : k \in 1..Len(RichSamples)}
        \cup {RichSamples[k].lit : k \in 1..3}
        \cup {RichSamples[4].lit \o Chars("\n \n"),
              RichSamples[6].lit \o Chars("\n")}

RichTexts ==
    {Concat(ts) : ts \in UNION {[1..n -> RichTokens] : n \in 0..MaxRichTokens}}

InitRich ==
    /\ text \in RichTexts
    /\ pc = "call"
    /\ blocks = <<>>
    /\ bi = 1
    /\ rows = <<>>
    /\ ri = 1
    /\ transactions = <<>>
    /\ result = NULL
    /\ NoServer

SpecRich == InitRich /\ [][Next]_vars

(***************************************************************************)
(* Several calls of parseTransactionsWithFallbacks in progress at once     *)
(***************************************************************************)
\* the number of calls; in this specification every variable holds one
\* value per call: the argument and the locals of the call
MaxCalls == 2

Calls == 1..MaxCalls

\* the arguments of the calls
CallTexts == { <<>>,
               Chars("refund "),
               Chars("11 Dec 2025 ₹1,250.00 "),
               Chars("12/11/2025 $5.50 Cr \n\n11 Dec 2025 Amount: 75"),
               Chars("2025-12-11, ₹0, x\n2025-12-10, ₹0, y") }

\* a store to the list of call c, were the list one module-level array
\* shared by all the calls
StoreShared(lists, c, v) == [d \in DOMAIN lists |-> v]

\* a store to the list of call c: parsed (const parsed = [], line 383) and
\* transactions (let transactions, line 425) are locals of the call
Store(lists, c, v) == [lists EXCEPT ![c] = v]

InitCalls ==
    /\ text \in [Calls -> CallTexts]
    /\ pc = [c \in Calls |-> "call"]
    /\ blocks = [c \in Calls |-> <<>>]
    /\ bi = [c \in Calls |-> 1]
    /\ rows = [c \in Calls |-> <<>>]
    /\ ri = [c \in Calls |-> 1]
    /\ transactions = [c \in Calls |-> <<>>]
    /\ result = [c \in Calls |-> NULL]
    /\ NoServer

\* Enter for call c
CallEnter(c) ==
    /\ pc[c] = "call"
    /\ blocks' = [blocks EXCEPT ![c] = BlocksOf(text[c])]
    /\ bi' = [bi EXCEPT ![c] = 1]
    /\ transactions' = Store(transactions, c, <<>>)
    /\ pc' = [pc EXCEPT ![c] = "standard"]
    /\ UNCHANGED << text, rows, ri, result >>
    /\ UNCHANGED server

\* StandardBlock for call c
CallStandardBlock(c) ==
    /\ pc[c] = "standard"
    /\ bi[c] <= Len(blocks[c])
    /\ transactions' = Store(transactions, c,
                             PushBlock(transactions[c], blocks[c][bi[c]]))
    /\ bi' = [bi EXCEPT ![c] = bi[c] + 1]
    /\ UNCHANGED << text, pc, blocks, rows, ri, result >>
    /\ UNCHANGED server

\* ReturnStandard for call c
CallReturnStandard(c) ==
    /\ pc[c] = "standard"
    /\ bi[c] > Len(blocks[c])
    /\ Len(transactions[c]) > 0
    /\ result' = [result EXCEPT ![c] =
                     << [transactions |-> transactions[c],
                         confidence   |-> calculateBatchConfidence(transactions[c]),
                         parseMethod  |-> "standard"] >>]
    /\ pc' = [pc EXCEPT ![c] = "done"]
    /\ UNCHANGED << text, blocks, bi, rows, ri, transactions >>
    /\ UNCHANGED server

\* EnterCsv for call c
CallEnterCsv(c) ==
    /\ pc[c] = "standard"
    /\ bi[c] > Len(blocks[c])
    /\ Len(transactions[c]) = 0
    /\ includes(text[c], << "," >>)
    /\ rows' = [rows EXCEPT ![c] = CsvRows(text[c])]
    /\ ri' = [ri EXCEPT ![c] = 1]
    /\ pc' = [pc EXCEPT ![c] = "csv"]
    /\ UNCHANGED << text, blocks, bi, transactions, result >>
    /\ UNCHANGED server

\* SkipCsv for call c
CallSkipCsv(c) ==
    /\ pc[c] = "standard"
    /\ bi[c] > Len(blocks[c])
    /\ Len(transactions[c]) = 0
    /\ ~ includes(text[c], << "," >>)
    /\ pc' = [pc EXCEPT ![c] = "afterCsv"]
    /\ UNCHANGED << text, blocks, bi, rows, ri, transactions, result >>
    /\ UNCHANGED server

\* CsvRow for call c
CallCsvRow(c) ==
    /\ pc[c] = "csv"
    /\ ri[c] <= Len(rows[c])
    /\ transactions' = Store(transactions, c,
                             PushRow(transactions[c], rows[c][ri[c]]))
    /\ ri' = [ri EXCEPT ![c] = ri[c] + 1]
    /\ UNCHANGED << text, pc, blocks, bi, rows, result >>
    /\ UNCHANGED server

\* CsvDone for call c
CallCsvDone(c) ==
    /\ pc[c] = "csv"
    /\ ri[c] > Len(rows[c])
    /\ pc' = [pc EXCEPT ![c] = "afterCsv"]
    /\ UNCHANGED << text, blocks, bi, rows, ri, transactions, result >>
    /\ UNCHANGED server

\* ReturnCsv for call c
CallReturnCsv(c) ==
    /\ pc[c] = "afterCsv"
    /\ Len(transactions[c]) > 0
    /\ result' = [result EXCEPT ![c] =
                     << [transactions |-> transactions[c],
                         confidence   |-> calculateBatchConfidence(transactions[c]),
                         parseMethod  |-> "csv_fallback"] >>]
    /\ pc' = [pc EXCEPT ![c] = "done"]
    /\ UNCHANGED << text, blocks, bi, rows, ri, transactions >>
    /\ UNCHANGED server

\* ReturnFailed for call c
CallReturnFailed(c) ==
    /\ pc[c] = "afterCsv"
    /\ Len(transactions[c]) = 0
    /\ result' = [result EXCEPT ![c] =
                     << [transactions |-> <<>>,
                         confidence   |-> [num |-> 0, den |-> 1],
                         parseMethod  |-> "failed"] >>]
    /\ pc' = [pc EXCEPT ![c] = "done"]
    /\ UNCHANGED << text, blocks, bi, rows, ri, transactions >>
    /\ UNCHANGED server

NextCalls ==
    \E c \in Calls :
        \/ CallEnter(c)
        \/ CallStandardBlock(c)
        \/ CallReturnStandard(c)
        \/ CallEnterCsv(c)
        \/ CallSkipCsv(c)
        \/ CallCsvRow(c)
        \/ CallCsvDone(c)
        \/ CallReturnCsv(c)
        \/ CallReturnFailed(c)

SpecCalls == InitCalls /\ [][NextCalls]_vars

(***************************************************************************)
(* The rate limiter in front of the transaction routes                     *)
(***************************************************************************)
\* the clock is read at multiples of TickMs up to MaxTicks * TickMs
MaxTicks == 3
TickMs == 30000

\* the authenticated users that send requests
Users == {"alice", "bob"}

\* the routes behind rateLimit(options), with their options
Routes == <<
    [name |-> "POST /extract", limit |-> 30, windowMs |-> 60000],
    [name |-> "GET /",         limit |-> 60, windowMs |-> 60000],
    [name |-> "GET /stats",    limit |-> 60, windowMs |-> 60000],
    [name |-> "DELETE /:id",   limit |-> 30, windowMs |-> 60000],
    [name |-> "PUT /:id",      limit |-> 30, windowMs |-> 60000] >>

\* the options the routes pass to rateLimit
Options ==
    {[limit |-> Routes[r].limit, windowMs |-> Routes[r].windowMs] :
        r \in 1..Len(Routes)}

\* new Map()
EmptyMap == [k \in {} |-> NULL]

\* const key = auth?.userId ? `user:${auth.userId}` : ...
KeyOf(u) == Chars("user:") \o Chars(u)

\* windows.get(key): NULL for undefined
MapGet(map, key) == IF key \in DOMAIN map THEN << map[key] >> ELSE NULL

\* windows.set(key, w)
MapSet(map, key, w) ==
    [k \in DOMAIN map \cup {key} |-> IF k = key THEN w ELSE map[k]]

\* what is written down of the requests: the last one (user, limit of its
\* route, answer) and, per user, the number of requests let through to a handler since
\* the user's window was opened, when it was opened and with which windowMs
Noted(u, o, answer, admitted, openedAt, windowMs) ==
    [last     |-> << [user |-> u, limit |-> o.limit, answer |-> answer] >>,
     admitted |-> admitted,
     openedAt |-> openedAt,
     windowMs |-> windowMs]

InitRate ==
    /\ text = <<>> /\ pc = "idle" /\ blocks = <<>> /\ bi = 1
    /\ rows = <<>> /\ ri = 1 /\ transactions = <<>> /\ result = NULL
    /\ now = 0
    /\ windows = EmptyMap
    /\ db = <<>>
    /\ req = [last     |-> NULL,
              admitted |-> [u \in Users |-> 0],
              openedAt |-> [u \in Users |-> 0],
              windowMs |-> [u \in Users |-> 0]]

\* time passes
Tick ==
    /\ now < MaxTicks * TickMs
    /\ now' = now + TickMs
    /\ UNCHANGED << windows, db, req >>
    /\ UNCHANGED parser

\* the same, the window ending after half of windowMs
OpenWindowHalf(u, o, w) ==
    /\ IF w = NULL THEN TRUE ELSE w[1].resetAt <= now
    /\ windows' = MapSet(windows, KeyOf(u),
                         [count |-> 1, resetAt |-> now + (o.windowMs \div 2)])
    /\ req' = Noted(u, o, "next",
                    [req.admitted EXCEPT ![u] = 1],
                    [req.openedAt EXCEPT ![u] = now],
                    [req.windowMs EXCEPT ![u] = o.windowMs])

\* if (!w || w.resetAt <= now) { windows.set(key, { count: 1, resetAt: now
\* + windowMs }); return await next(); }
OpenWindow(u, o, w) ==
    /\ IF w = NULL THEN TRUE ELSE w[1].resetAt <= now
    /\ windows' = MapSet(windows, KeyOf(u),
                         [count |-> 1, resetAt |-> now + o.windowMs])
    /\ req' = Noted(u, o, "next",
                    [req.admitted EXCEPT ![u] = 1],
                    [req.openedAt EXCEPT ![u] = now],
                    [req.windowMs EXCEPT ![u] = o.windowMs])

\* if (w.count >= limit) return c.json({...}, 429)
Reject(u, o, w) ==
    /\ w # NULL
    /\ w[1].resetAt > now
    /\ w[1].count >= o.limit
    /\ UNCHANGED windows
    /\ req' = Noted(u, o, "429", req.admitted, req.openedAt, req.windowMs)

\* Admit with the test if (w.count > limit): one request more is let through
AdmitUpToLimit(u, o, w) ==
    /\ w # NULL
    /\ w[1].resetAt > now
    /\ w[1].count <= o.limit
    /\ windows' = MapSet(windows, KeyOf(u),
                         [count |-> w[1].count + 1, resetAt |-> w[1].resetAt])
    /\ req' = Noted(u, o, "next",
                    [req.admitted EXCEPT ![u] = req.admitted[u] + 1],
                    req.openedAt, req.windowMs)

\* w.count += 1; windows.set(key, w); return await next()
Admit(u, o, w) ==
    /\ w # NULL
    /\ w[1].resetAt > now
    /\ w[1].count < o.limit
    /\ windows' = MapSet(windows, KeyOf(u),
                         [count |-> w[1].count + 1, resetAt |-> w[1].resetAt])
    /\ req' = Noted(u, o, "next",
                    [req.admitted EXCEPT ![u] = req.admitted[u] + 1],
                    req.openedAt, req.windowMs)

\* the middleware rateLimit(options) for a request of user u to a route
\* with the options o:
\* from Date.now() to the call of next() nothing is awaited, so the
\* middleware is one step
RateLimitOpen ==
    \E u \in Users : \E o \in Options :
        /\ OpenWindow(u, o, MapGet(windows, KeyOf(u)))
        /\ UNCHANGED << now, db >>
        /\ UNCHANGED parser

RateLimitReject ==
    \E u \in Users : \E o \in Options :
        /\ Reject(u, o, MapGet(windows, KeyOf(u)))
        /\ UNCHANGED << now, db >>
        /\ UNCHANGED parser

RateLimitAdmit ==
    \E u \in Users : \E o \in Options :
        /\ Admit(u, o, MapGet(windows, KeyOf(u)))
        /\ UNCHANGED << now, db >>
        /\ UNCHANGED parser

NextRate ==
    \/ Tick
    \/ RateLimitOpen
    \/ RateLimitReject
    \/ RateLimitAdmit

SpecRate == InitRate /\ [][NextRate]_vars

(***************************************************************************)
(* Properties                                                              *)
(***************************************************************************)
\* the record has every required field, with a value of its type
WellFormedRecord(t) ==
    /\ DOMAIN t = {"date", "description", "amount", "type", "category",
                   "balance", "confidence"}
    /\ DOMAIN t.date = {"year", "month", "day"}
    /\ t.date.month \in 0..11
    /\ t.date.day \in 1..31
    /\ Len(t.description) >= 1
    /\ t.amount \in Int
    /\ t.type \in {"debit", "credit"}
    /\ Len(t.category) <= 1
    /\ Len(t.balance) <= 1
    /\ t.confidence \in Int

WellFormedBatch(r) ==
    /\ DOMAIN r = {"transactions", "confidence", "parseMethod"}
    /\ \A k \in 1..Len(r.transactions) : WellFormedRecord(r.transactions[k])
    /\ r.confidence.num \in Int
    /\ r.confidence.den \in Int /\ r.confidence.den > 0
    /\ r.parseMethod \in {"standard", "csv_fallback", "failed"}

\* an upper bound of the number of steps until the call returns (a text
\* has at most Len(text) + 1 blocks and at most Len(text) + 1 rows)
Remaining ==
    CASE pc = "call"     -> 2 * Len(text) + 7
      [] pc = "standard" -> (Len(blocks) + 1 - bi) + Len(text) + 5
      [] pc = "csv"      -> (Len(rows) + 1 - ri) + 2
      [] pc = "afterCsv" -> 1
      [] OTHER           -> 0

\* C1: for every text (the empty one, whitespace only, symbols) the call
\* goes on to its return and never reads past the blocks or rows it loops
\* over: every step brings the return nearer; the list
\* parseTransactionText builds holds well-formed records only, and what
\* parseTransactionsWithFallbacks returns is a well-formed batch whose
\* parseMethod is standard, csv_fallback or failed.
C1_Totality ==
    /\ [][Remaining' < Remaining]_vars
    /\ [](/\ Remaining >= 0
          /\ pc \in {"call", "standard", "csv", "afterCsv", "done"}
          /\ bi \in 1..(Len(blocks) + 1)
          /\ ri \in 1..(Len(rows) + 1)
          /\ \A k \in 1..Len(transactions) : WellFormedRecord(transactions[k])
          /\ pc = "done" <=> result # NULL
          /\ pc = "done" => WellFormedBatch(result[1]))

\* C1 witness: a call on a non-empty text of whitespace only has returned.
C1_Witness ==
    /\ pc = "done"
    /\ text # <<>>
    /\ trim(text) = <<>>
    /\ result[1].parseMethod = "failed"

\* C2: an iteration of the block loop of parseTransactionText either leaves
\* the list as it is or appends one record that carries the date and the
\* amount extracted from that very block; it appends only if both were
\* extracted, and it never touches the records of the blocks before.
C2_BothOrNothing ==
    [][ (pc = "standard" /\ bi' = bi + 1) =>
          LET date   == parseDate(blocks[bi])
              amount == parseAmount(blocks[bi])
          IN  \/ transactions' = transactions
              \/ /\ date # NULL
                 /\ amount # NULL
                 /\ Len(transactions') = Len(transactions) + 1
                 /\ SubSeq(transactions', 1, Len(transactions)) = transactions
                 /\ transactions'[Len(transactions')].date = date[1]
                 /\ transactions'[Len(transactions')].amount = amount[1].amount
      ]_vars

\* C2 witness: the block loop is over, a block without a date or without an
\* amount gave nothing and another block of the same text gave its record.
C2_Witness ==
    /\ pc = "standard"
    /\ bi > Len(blocks)
    /\ Len(transactions) >= 1
    /\ \E k \in 1..Len(blocks) :
          /\ trim(blocks[k]) # <<>>
          /\ parseDate(blocks[k]) = NULL \/ parseAmount(blocks[k]) = NULL

\* the fallback run on its own: the records of the comma-separated rows
RECURSIVE ParseRows(_, _)
ParseRows(rs, acc) ==
    IF rs = <<>> THEN acc ELSE ParseRows(Tail(rs), PushRow(acc, Head(rs)))
CsvRecords(t) == IF includes(t, << "," >>) THEN ParseRows(CsvRows(t), <<>>) ELSE <<>>

\* C3: the batch is tagged standard exactly when the standard path has a
\* record, csv_fallback exactly when it has none and the rows have one,
\* failed exactly when both have none; a failed batch is empty with
\* confidence 0 and every other batch is non-empty.
C3_MethodTagging ==
    pc = "done" =>
        LET r == result[1]
            std == parseTransactionText(text)
            csv == CsvRecords(text)
        IN  /\ r.parseMethod = "standard" <=> std # <<>>
            /\ r.parseMethod = "csv_fallback" <=> (std = <<>> /\ csv # <<>>)
            /\ r.parseMethod = "failed" <=> (std = <<>> /\ csv = <<>>)
            /\ r.parseMethod = "failed" =>
                   r.transactions = <<>> /\ r.confidence.num = 0
            /\ r.parseMethod # "failed" => r.transactions # <<>>

\* C3 witness: a call has returned a batch tagged csv_fallback.
C3_Witness ==
    /\ pc = "done"
    /\ result[1].parseMethod = "csv_fallback"
    /\ Len(result[1].transactions) >= 1

\* fractions a and b are equal
FracEq(a, b) == a.num * b.den = b.num * a.den

\* the smaller of the fraction c and 1
CapAtOne(c) == IF c.num > c.den THEN [num |-> 1, den |-> 1] ELSE c

\* C4: calculateBatchConfidence gives 0 for the empty list, 0.9 times the
\* record's confidence for one record and the plain mean of the confidences
\* for two or more, each capped at 1.
C4_BatchConfidence ==
    pc = "done" =>
        LET n   == Len(transactions)
            sum == SumConfidence(transactions)
        IN  /\ n = 0 => FracEq(result[1], [num |-> 0, den |-> 1])
            /\ n = 1 => FracEq(result[1],
                           CapAtOne([num |-> 9 * transactions[1].confidence,
                                     den |-> 1000]))
            /\ n >= 2 => FracEq(result[1], CapAtOne([num |-> sum, den |-> 100 * n]))

\* C4 witness: the confidence of a list of exactly one record was computed,
\* and it is below that record's confidence.
C4_Witness ==
    /\ pc = "done"
    /\ Len(transactions) = 1
    /\ transactions[1].confidence = 95
    /\ FracEq(result[1], [num |-> 855, den |-> 1000])

\* C5: every record has a confidence between 0 and 1 and so has the batch
\* that parseTransactionsWithFallbacks returns.
C5_ConfidenceBounds ==
    /\ \A k \in 1..Len(transactions) :
          transactions[k].confidence >= 0 /\ transactions[k].confidence <= 100
    /\ pc = "done" =>
          /\ \A k \in 1..Len(result[1].transactions) :
                /\ result[1].transactions[k].confidence >= 0
                /\ result[1].transactions[k].confidence <= 100
          /\ result[1].confidence.num >= 0
          /\ result[1].confidence.num <= result[1].confidence.den

\* C5 witness: a batch of fallback records was returned with a confidence
\* strictly between 0 and 1.
C5_Witness ==
    /\ pc = "done"
    /\ result[1].parseMethod = "csv_fallback"
    /\ result[1].confidence.num > 0
    /\ result[1].confidence.num < result[1].confidence.den

\* the text writes an amount label with a minus sign
HasMinusAmount(t) == \E i \in 1..Len(t) : StartsWith(t, i, Chars("Amount: -4"))

\* C6: every record of either path has an amount of at least 0, also when
\* the text writes the amount with a minus sign.
C6_AmountNonNegative ==
    /\ \A k \in 1..Len(transactions) : transactions[k].amount >= 0
    /\ pc = "done" =>
          \A k \in 1..Len(result[1].transactions) :
              result[1].transactions[k].amount >= 0

\* C6 witness: the fallback returned a record whose amount the row writes
\* with a minus sign.
C6_Witness ==
    /\ pc = "done"
    /\ result[1].parseMethod = "csv_fallback"
    /\ Len(rows) = 1
    /\ HasMinusAmount(Split(rows[1], ",")[2])
    /\ result[1].transactions[1].amount = 42000

\* C7: the row loop of the fallback is entered only when the standard path
\* has no record and the text has a comma; a batch tagged standard is
\* exactly the list of the standard path and no row was ever looked at,
\* and a batch tagged csv_fallback is exactly the list of the rows.
C7_NoMixing ==
    /\ pc = "csv" =>
          /\ parseTransactionText(text) = <<>>
          /\ includes(text, << "," >>)
          /\ \A k \in 1..Len(transactions) : transactions[k].confidence = 75
    /\ (pc = "done" /\ result[1].parseMethod = "standard") =>
          /\ rows = <<>> /\ ri = 1
          /\ result[1].transactions = parseTransactionText(text)
          /\ \A k \in 1..Len(result[1].transactions) :
                result[1].transactions[k].confidence = 95
    /\ (pc = "done" /\ result[1].parseMethod = "csv_fallback") =>
          result[1].transactions = CsvRecords(text)

\* C7 witness: a batch tagged standard was returned for a text one of whose
\* comma-separated rows parses under the rules of the fallback.
C7_Witness ==
    /\ pc = "done"
    /\ result[1].parseMethod = "standard"
    /\ CsvRecords(text) # <<>>

\* the text of scenario E
ScenarioE == Chars("2025-12-11, -420, STARBUCKS")

\* C8: for the text 2025-12-11, -420, STARBUCKS the standard path has no
\* record and the call returns exactly one record, amount 420, description
\* STARBUCKS, confidence 0.75, tagged csv_fallback.
C8_ScenarioE ==
    (pc = "done" /\ text = ScenarioE) =>
        /\ parseTransactionText(text) = <<>>
        /\ result[1].parseMethod = "csv_fallback"
        /\ Len(result[1].transactions) = 1
        /\ result[1].transactions[1].amount = 42000
        /\ result[1].transactions[1].description = Chars("STARBUCKS")
        /\ result[1].transactions[1].confidence = 75

\* C9: when the minus-sign check does not apply, determineTransactionType
\* answers credit only if more credit keywords than debit keywords occur in
\* the text; with equal counts, zero on both sides included, it answers
\* debit.
C9_TiesAreDebit ==
    (pc = "done" /\ ~ NegativeSign(text)) =>
        LET lowerText == toLowerCase(text)
        IN  result[1] = IF Score(lowerText, creditIndicators)
                            > Score(lowerText, debitIndicators)
                         THEN "credit" ELSE "debit"

\* a minus sign right after an Amount: label (blanks may come between)
MinusAfterAmountLabel(t) ==
    \E i \in 1..Len(t) :
        /\ StartsWith(t, i, Chars("Amount:"))
        /\ At(t, RunEnd(t, i + 7, {" "})) = "-"

\* a minus sign right before a digit
MinusBeforeNumber(t) ==
    \E i \in 1..Len(t) : t[i] = "-" /\ At(t, i + 1) \in Digits

\* C10: a record built from a block (or, in the fallback, a row) that has a
\* minus sign right after an Amount: label, or a minus sign right before a
\* number, is typed debit, whatever credit keywords the text has.
C10_MinusWins ==
    [][ /\ (pc = "standard" /\ Len(transactions') = Len(transactions) + 1
              /\ (MinusAfterAmountLabel(blocks[bi]) \/ MinusBeforeNumber(blocks[bi])))
            => transactions'[Len(transactions')].type = "debit"
        /\ (pc = "csv" /\ Len(transactions') = Len(transactions) + 1
              /\ (MinusAfterAmountLabel(rows[ri]) \/ MinusBeforeNumber(rows[ri])))
            => transactions'[Len(transactions')].type = "debit"
      ]_vars

\* C10 witness: a record typed debit whose block has a minus sign after the
\* Amount: label and the credit keyword refund.
C10_Witness ==
    /\ pc = "standard"
    /\ bi = 2
    /\ Len(transactions) = 1
    /\ MinusAfterAmountLabel(blocks[1])
    /\ includes(toLowerCase(blocks[1]), Chars("refund"))
    /\ transactions[1].type = "debit"

\* the first position of the literal lit in s, 0 if it does not occur
IndexOf(s, lit) ==
    Leftmost({i \in 1..(Len(s) - Len(lit) + 1) : StartsWith(s, i, lit)})

\* the text writes a date with a component out of range
HasOutOfRangeDate(t) ==
    \/ includes(t, Chars("32/13/2025"))
    \/ includes(t, Chars("31-02-2024"))
    \/ includes(t, Chars("2021-00-00"))

InRangeDate(day, month, year) ==
    /\ month \in 1..12
    /\ day >= 1
    /\ day <= DaysInMonth(year, month - 1)

\* the match m of the pattern with index k is a date of the calendar
InRangeMatch(k, m) ==
    IF k = 0 THEN InRangeDate(m.g1, m.g2 + 1, m.g3)
    ELSE IF k = 2 THEN InRangeDate(m.g3, m.g2, m.g1)
    ELSE InRangeDate(m.g1, m.g2, m.g3)

\* the date of the match if the match is a date of the calendar
DateIfInRange(k, match) ==
    IF match # NULL /\ InRangeMatch(k, match[1])
    THEN {DateOfMatch(k, match[1])} ELSE {}

\* C12: a date that parseDate returns is built from a match whose
\* components are in range; a match with a component out of range (day 32,
\* month 13, 31 February) counts as not found.
C12_OutOfRangeSkipped ==
    (pc = "done" /\ result[1] # NULL) =>
        result[1][1] \in DateIfInRange(0, DatePattern0(text))
                         \cup DateIfInRange(1, DatePattern1(text))
                         \cup DateIfInRange(2, DatePattern2(text))
                         \cup DateIfInRange(3, DatePattern3(text))

\* the samples that occur in the text
SamplesIn(t) == {k \in 1..Len(AmountSamples) : IndexOf(t, AmountSamples[k].lit) > 0}

\* the sample parseAmount is to read: of the samples in the text, the
\* leftmost one of the first pattern of the table that has one
SampleToRead(t) ==
    CHOOSE k \in SamplesIn(t) :
        \A j \in SamplesIn(t) :
            \/ AmountSamples[k].pattern < AmountSamples[j].pattern
            \/ /\ AmountSamples[k].pattern = AmountSamples[j].pattern
               /\ IndexOf(t, AmountSamples[k].lit) <= IndexOf(t, AmountSamples[j].lit)

\* C13: parseAmount returns the absolute value of the whole number the
\* text writes after the label or the currency sign, thousands separators
\* removed, written with separators (1,250.00) or without (1250.00), with
\* confidence 0.95; it returns null when the text writes no number (no
\* pattern matches, or what follows the currency sign is not a number).
C13_WholeNumber ==
    pc = "done" =>
        /\ SamplesIn(text) = {} => result[1] = NULL
        /\ (SamplesIn(text) # {} /\ ~ includes(text, Chars("₹,"))) =>
               result[1] = << [amount     |-> Abs(AmountSamples[SampleToRead(text)].value),
                               confidence |-> 95] >>

\* t has a run of blank lines: two line breaks with blanks only between
HasBlankLine(t) ==
    \E i \in 1..Len(t) : \E j \in (i + 1)..Len(t) :
        /\ t[i] = "\n"
        /\ t[j] = "\n"
        /\ \A k \in (i + 1)..(j - 1) : t[k] \in Whitespace

\* the length of the empty line or line of one blank at position i of t,
\* 0 if there is none
BlankLineAt(t, i) ==
    IF StartsWith(t, i, Chars("\n\n")) THEN 2
    ELSE IF StartsWith(t, i, Chars("\n \n")) THEN 3
    ELSE 0

\* the blocks of RichSamples that start t, each followed by a blank line
\* or by the end of the text
BlocksAtStart(t) ==
    {k \in 1..Len(RichSamples) :
        /\ StartsWith(t, 1, RichSamples[k].lit)
        /\ \/ BlankLineAt(t, Len(RichSamples[k].lit) + 1) > 0
           \/ Len(t) = Len(RichSamples[k].lit)}

\* the indexes in RichSamples of the blocks t is written from, in the order
\* of the text; a 0 ends the sequence where t goes on with something else
RECURSIVE WrittenBlocks(_)
WrittenBlocksFrom(t, ks) ==
    IF ks = {} THEN << 0 >>
    ELSE << Min(ks) >>
         \o WrittenBlocks(Sub(t, Len(RichSamples[Min(ks)].lit)
                                   + BlankLineAt(t, Len(RichSamples[Min(ks)].lit) + 1) + 1,
                              Len(t)))

WrittenBlocks(t) == IF t = <<>> THEN <<>> ELSE WrittenBlocksFrom(t, BlocksAtStart(t))

\* t is written from blocks of RichSamples and blank lines only
WrittenFromBlocks(t) == \A k \in 1..Len(WrittenBlocks(t)) : WrittenBlocks(t)[k] # 0

\* the blocks of t that write a date and a positive amount, in text order
StandardBlocks(t) == SelectSeq(WrittenBlocks(t), LAMBDA k : RichSamples[k].std)

\* C14: parseTransactionText splits the text at the runs of blank lines,
\* has at most one record per block, and returns the records in the order
\* of their blocks (11 Dec 2025 before 12 Nov 2025 if written in that
\* order); a text without a blank line is one block with at most one
\* record.
C14_BlockOrder ==
    (pc = "standard" /\ bi > Len(blocks)) =>
        /\ Len(transactions) <= Len(blocks)
        /\ ~ HasBlankLine(text) => (Len(blocks) <= 1 /\ Len(transactions) <= 1)
        /\ WrittenFromBlocks(text) =>
              /\ Len(transactions) = Len(StandardBlocks(text))
              /\ \A k \in 1..Len(transactions) :
                    transactions[k].date = RichSamples[StandardBlocks(text)[k]].date

\* C14 witness: the block loop is over for a text of two blocks, the first
\* dated 11 Dec 2025 and the second 12 Nov 2025, with a record for each.
C14_Witness ==
    /\ pc = "standard"
    /\ bi > Len(blocks)
    /\ WrittenBlocks(text) = << 1, 2 >>
    /\ Len(transactions) = 2
    /\ transactions[1].date = NewDate(2025, 11, 11)
    /\ transactions[2].date = NewDate(2025, 10, 12)

\* C15: every record of the list being built and of the batch returned
\* that has a balance has a balance of 0 or more.
C15_BalanceNonNegative ==
    /\ \A k \in 1..Len(transactions) :
          transactions[k].balance # NULL => transactions[k].balance[1] >= 0
    /\ pc = "done" =>
          \A k \in 1..Len(result[1].transactions) :
              result[1].transactions[k].balance # NULL
                  => result[1].transactions[k].balance[1] >= 0

\* C16: a record of a block that writes a labelled balance (Balance after
\* transaction: 18,420.50, Available Balance ... 17,170.50, Bal 14171.50,
\* Balance: -5.00, Balance: 0, Bal 1,000.00) has that number as its
\* balance, thousands separators removed and the sign kept, and a record
\* of a block without a label has none.
C16_BalanceAsStated ==
    (pc = "standard" /\ bi > Len(blocks) /\ WrittenFromBlocks(text)) =>
        \A k \in 1..Len(transactions) :
            transactions[k].balance = RichSamples[StandardBlocks(text)[k]].balance

\* the comma-separated rows of t the fallback has a record for, in text
\* order: none as soon as one block has a record on the standard path
RowBlocks(t) ==
    IF StandardBlocks(t) # <<>> THEN <<>>
    ELSE SelectSeq(WrittenBlocks(t), LAMBDA k : RichSamples[k].row)

\* C17: no record has an empty description.  On the standard path a block
\* whose narrative has two characters or more keeps it, and a block whose
\* cleaning leaves nothing or one character is described as Transaction;
\* on the CSV path the description is the trimmed third field, or Parsed
\* Transaction if that is empty.
C17_DescriptionNonEmpty ==
    /\ \A k \in 1..Len(transactions) : Len(transactions[k].description) >= 1
    /\ (pc = "standard" /\ bi > Len(blocks) /\ WrittenFromBlocks(text)) =>
          /\ Len(transactions) = Len(StandardBlocks(text))
          /\ \A k \in 1..Len(transactions) :
                IF RichSamples[StandardBlocks(text)[k]].word = <<>>
                THEN transactions[k].description = Chars("Transaction")
                ELSE /\ includes(transactions[k].description,
                                 RichSamples[StandardBlocks(text)[k]].word)
                     /\ transactions[k].description # Chars("Transaction")
    /\ (pc = "afterCsv" /\ WrittenFromBlocks(text)) =>
          /\ Len(transactions) = Len(RowBlocks(text))
          /\ \A k \in 1..Len(transactions) :
                transactions[k].description =
                    IF RichSamples[RowBlocks(text)[k]].word = <<>>
                    THEN Chars("Parsed Transaction")
                    ELSE RichSamples[RowBlocks(text)[k]].word

\* C17 witness: the block loop is over for the block 2023-07-10 ₹5.00 x,
\* whose cleaning leaves the one character x, and its record is described
\* as Transaction.
C17_Witness ==
    /\ pc = "standard"
    /\ bi > Len(blocks)
    /\ WrittenBlocks(text) = << 11 >>
    /\ Len(transactions) = 1
    /\ transactions[1].description = Chars("Transaction")

AsDocumented(r, k) ==
    /\ r.amount = (CASE k = 1 -> 42000 [] k = 2 -> 125000 [] k = 3 -> 299900)
    /\ r.type = "debit"
    /\ r.balance = (CASE k = 1 -> << 1842050 >> [] k = 2 -> << 1717050 >>
                      [] k = 3 -> << 1417150 >>)
    /\ includes(r.description,
                CASE k = 1 -> Chars("STARBUCKS") [] k = 2 -> Chars("Uber")
                  [] k = 3 -> Chars("Amazon"))
    /\ k = 1 => /\ r.date = [year |-> 2025, month |-> 11, day |-> 11]
                /\ r.category = << "food" >>
                /\ r.confidence = 95
    /\ k = 3 => r.category = << "shopping" >>

ResultAlone(t, standard, csv) ==
    IF standard # <<>>
    THEN [transactions |-> standard,
          confidence   |-> calculateBatchConfidence(standard),
          parseMethod  |-> "standard"]
    ELSE IF csv # <<>>
    THEN [transactions |-> csv,
          confidence   |-> calculateBatchConfidence(csv),
          parseMethod  |-> "csv_fallback"]
    ELSE [transactions |-> <<>>,
          confidence   |-> [num |-> 0, den |-> 1],
          parseMethod  |-> "failed"]

\* C20: whatever the order in which the steps of the calls in progress are
\* taken, a call returns what it returns when it is the only call, and two
\* calls with the same text return equal results: nothing a call writes is
\* read by another.
C20_Stateless ==
    /\ \A c \in Calls :
          pc[c] = "done" =>
              result[c] = << ResultAlone(text[c], parseTransactionText(text[c]),
                                         CsvRecords(text[c])) >>
    /\ \A c \in Calls : \A d \in Calls :
          (pc[c] = "done" /\ pc[d] = "done" /\ text[c] = text[d])
              => result[c] = result[d]

\* C20 witness: the second call returned a batch of the fallback while
\* the first call, of a different text, is in its block loop with a record
\* in its list.
C20_Witness ==
    /\ pc[2] = "done"
    /\ result[2][1].parseMethod = "csv_fallback"
    /\ pc[1] = "standard"
    /\ Len(transactions[1]) = 1
    /\ bi[1] <= Len(blocks[1])

\* the request noted last by a step, and the window of its user before
\* and after the step
LastUser == req'.last[1].user
WindowBefore == MapGet(windows, KeyOf(LastUser))
WindowAfter == MapGet(windows', KeyOf(LastUser))

\* C25: a request of a user without a window, or at or after the reset
\* time of the user's window, is passed to its handler and opens a window
\* with count 1 that ends windowMs later; a request before the reset time
\* is passed to its handler and counted if fewer than limit requests were
\* let through since the window was opened, and is otherwise answered
\* 429 with the windows left as they are.  The requests are handled one
\* after the other in every order, the limiter awaiting nothing.
C25_WindowLimit ==
    [][req' # req =>
          IF WindowBefore = NULL \/ (WindowBefore # NULL /\ WindowBefore[1].resetAt <= now)
          THEN /\ req'.last[1].answer = "next"
               /\ WindowAfter = << [count |-> 1, resetAt |-> now + 60000] >>
               /\ req'.admitted[LastUser] = 1
          ELSE IF req.admitted[LastUser] >= req'.last[1].limit
          THEN /\ req'.last[1].answer = "429"
               /\ now < WindowBefore[1].resetAt
               /\ windows' = windows
               /\ req'.admitted = req.admitted
          ELSE /\ req'.last[1].answer = "next"
               /\ req'.admitted[LastUser] = req.admitted[LastUser] + 1
               /\ req'.admitted[LastUser] <= req'.last[1].limit
               /\ WindowAfter[1].count = req'.admitted[LastUser]
               /\ WindowAfter[1].resetAt = WindowBefore[1].resetAt]_vars

\* C25 witness: alice's request to a route with limit 30 was answered 429
\* before the reset time of her window, 30 requests having been let
\* through since it was opened.
C25_Witness ==
    /\ req.last # NULL
    /\ req.last[1] = [user |-> "alice", limit |-> 30, answer |-> "429"]
    /\ req.admitted["alice"] = 30
    /\ windows[KeyOf("alice")].count = 30
    /\ now < windows[KeyOf("alice")].resetAt
    /\ now > req.openedAt["alice"]

\* the largest limit any route passes to rateLimit
LargestLimit == 60

\* C26: the rate-limited routes share one window per user.  For every request:
\* if the user's window is live and its count has reached the limit of the
\* route asked, the request is answered 429, whichever routes the counted
\* requests went to; afterwards the window's count is the number of requests
\* let through on all routes since it was opened, that number is at most 60,
\* the window ends windowMs of the opening request's route after it was
\* opened, and the windows of the other users are untouched.
C26_SharedWindow ==
    [][req' # req =>
        /\ IF WindowBefore = NULL THEN TRUE
           ELSE (WindowBefore[1].resetAt > now
                 /\ WindowBefore[1].count >= req'.last[1].limit)
                => req'.last[1].answer = "429"
        /\ WindowAfter # NULL
        /\ WindowAfter[1].count = req'.admitted[LastUser]
        /\ WindowAfter[1].count <= LargestLimit
        /\ WindowAfter[1].resetAt
           = req'.openedAt[LastUser] + req'.windowMs[LastUser]
        /\ \A u \in Users \ {LastUser} :
              MapGet(windows', KeyOf(u)) = MapGet(windows, KeyOf(u))
      ]_vars

\* a request to a route of limit 30 is answered 429 in a window that has
\* counted 31 requests, so some of them went to a route of limit 60
C26_Witness ==
    /\ req.last = << [user |-> "bob", limit |-> 30, answer |-> "429"] >>
    /\ req.admitted["bob"] = 31
    /\ MapGet(windows, KeyOf("bob")) # NULL
    /\ windows[KeyOf("bob")].count = 31

(***************************************************************************)
(* POST /api/transactions/extract (routes/transactions.ts) and             *)
(* saveTransactions (userService.ts): the requests of the users, each      *)
(* between two awaits of its handler, and the transaction table.           *)
(***************************************************************************)

\* the number of requests sent in a behaviour
MaxRequests == 2

\* auth.organizationId: the organization of the user's first membership
OrgOf == [u \in Users |-> IF u = "alice" THEN "org_a" ELSE "org_b"]

\* the tables behind the prisma client, empty
EmptyDb == [user               |-> {},
            organization       |-> {},
            organizationMember |-> {},
            transaction        |-> {}]

\* parseTransactionsWithFallbacks as a function of the text
parseTransactionsWithFallbacks(t) ==
    ResultAlone(t, parseTransactionText(t), CsvRecords(t))

\* the texts of the request bodies
ExtractTexts == { <<>>,
                  Chars("ab"),
                  Chars("refund "),
                  Chars("11 Dec 2025 ₹1,250.00 "),
                  Chars("12/11/2025 $5.50 Cr \n\n11 Dec 2025 Amount: 75"),
                  Chars("2025-12-11, ₹0, x\n2025-12-10, ₹0, y") }

\* parseTransactionsWithFallbacks on each of these texts
ResultOfText == [t \in ExtractTexts |-> parseTransactionsWithFallbacks(t)]

\* the request bodies: without a text, or with one
ExtractBodies == {NULL} \cup {<< t >> : t \in ExtractTexts}

\* transactionInputSchema: z.object({ text: z.string().min(1) })
transactionInputSchema(body) == body # NULL /\ Len(body[1]) >= 1

\* a row written without the text of the request
TransactionRowNoText(id, userId, organizationId, txn, k, rawText, confidence) ==
    [id             |-> id,
     userId         |-> userId,
     organizationId |-> organizationId,
     date           |-> txn.date,
     description    |-> txn.description,
     amount         |-> txn.amount,
     type           |-> txn.type,
     category       |-> txn.category,
     balance        |-> txn.balance,
     confidence     |-> txn.confidence,
     rawText        |-> <<>>,
     metadata       |-> [parseMethod     |-> "standard",
                         originalIndex   |-> k - 1,
                         batchConfidence |-> confidence]]

\* the row prisma.transaction.create writes for transactions[k]
TransactionRow(id, userId, organizationId, txn, k, rawText, confidence) ==
    [id             |-> id,
     userId         |-> userId,
     organizationId |-> organizationId,
     date           |-> txn.date,
     description    |-> txn.description,
     amount         |-> txn.amount,
     type           |-> txn.type,
     category       |-> txn.category,
     balance        |-> txn.balance,
     confidence     |-> txn.confidence,
     rawText        |-> rawText,
     metadata       |-> [parseMethod     |-> "standard",
                         originalIndex   |-> k - 1,
                         batchConfidence |-> confidence]]

\* c.json({ success: false, error: { code } }, status) and the 201
Answer(status, code) == << [status |-> status, code |-> code] >>

InitExtract ==
    /\ text = [u \in Users |-> NULL]
    /\ pc = [u \in Users |-> "idle"]
    /\ result = [u \in Users |-> NULL]
    /\ transactions = [u \in Users |-> {}]
    /\ blocks = <<>>
    /\ bi = 1
    /\ rows = <<>>
    /\ ri = 1
    /\ now = 0
    /\ windows = EmptyMap
    /\ db = EmptyDb
    /\ req = [sent |-> 0, answer |-> [u \in Users |-> NULL]]

\* a request of user u arrives: const body = await c.req.json()
ExtractReceive(u) ==
    /\ pc[u] = "idle"
    /\ req.sent < MaxRequests
    /\ \E body \in ExtractBodies : text' = [text EXCEPT ![u] = body]
    /\ pc' = [pc EXCEPT ![u] = "received"]
    /\ result' = [result EXCEPT ![u] = NULL]
    /\ transactions' = [transactions EXCEPT ![u] = {}]
    /\ req' = [sent |-> req.sent + 1, answer |-> [req.answer EXCEPT ![u] = NULL]]
    /\ UNCHANGED << blocks, bi, rows, ri, now, windows, db >>

\* if (!validation.success) return c.json({... "VALIDATION_ERROR"}, 400)
ExtractInvalid(u) ==
    /\ pc[u] = "received"
    /\ ~transactionInputSchema(text[u])
    /\ pc' = [pc EXCEPT ![u] = "idle"]
    /\ req' = [req EXCEPT !.answer[u] = Answer(400, "VALIDATION_ERROR")]
    /\ UNCHANGED << text, result, transactions, blocks, bi, rows, ri, now,
                    windows, db >>

\* const parseResult = parseTransactionsWithFallbacks(text), and what the
\* handler does with it up to its next await
ExtractParsed(u, parseResult) ==
    /\ result' = [result EXCEPT ![u] = << parseResult >>]
    /\ IF Len(parseResult.transactions) = 0
       THEN /\ pc' = [pc EXCEPT ![u] = "idle"]
            /\ req' = [req EXCEPT !.answer[u] = Answer(400, "PARSE_ERROR")]
       ELSE /\ pc' = [pc EXCEPT ![u] = "saving"]
            /\ req' = req

ExtractParse(u) ==
    /\ pc[u] = "received"
    /\ transactionInputSchema(text[u])
    /\ ExtractParsed(u, ResultOfText[text[u][1]])
    /\ UNCHANGED << text, transactions, blocks, bi, rows, ri, now, windows, db >>

\* one prisma.transaction.create of the Promise.all of saveTransactions
\* completes: the creates are started in the order of the records and
\* complete in any order
ExtractCreate(u) ==
    /\ pc[u] = "saving"
    /\ \E k \in (1..Len(result[u][1].transactions)) \ transactions[u] :
          /\ db' = [db EXCEPT !.transaction = @ \cup
                     {TransactionRow(Cardinality(db.transaction) + 1,
                                     u, OrgOf[u],
                                     result[u][1].transactions[k], k,
                                     text[u][1], result[u][1].confidence)}]
          /\ transactions' = [transactions EXCEPT ![u] = @ \cup {k}]
    /\ UNCHANGED << text, pc, result, blocks, bi, rows, ri, now, windows, req >>

\* the Promise.all resolves: return c.json({ success: true, ... }, 201)
ExtractCreated(u) ==
    /\ pc[u] = "saving"
    /\ transactions[u] = 1..Len(result[u][1].transactions)
    /\ pc' = [pc EXCEPT ![u] = "idle"]
    /\ req' = [req EXCEPT !.answer[u] = Answer(201, "CREATED")]
    /\ UNCHANGED << text, result, transactions, blocks, bi, rows, ri, now,
                    windows, db >>

NextExtract ==
    \E u \in Users :
        \/ ExtractReceive(u)
        \/ ExtractInvalid(u)
        \/ ExtractParse(u)
        \/ ExtractCreate(u)
        \/ ExtractCreated(u)

SpecExtract == InitExtract /\ [][NextExtract]_vars

\* the answers and the rows of the requests, in a state
AnsweredAsParsed ==
    \A u \in Users :
        /\ (pc[u] = "idle" /\ result[u] # NULL /\ result[u][1].transactions = <<>>)
           => /\ req.answer[u] = Answer(400, "PARSE_ERROR")
              /\ transactions[u] = {}
        /\ (req.answer[u] # NULL /\ req.answer[u][1].status = 400)
           => transactions[u] = {}
        /\ req.answer[u] = Answer(201, "CREATED")
           => /\ result[u] # NULL
              /\ result[u][1].transactions # <<>>
              /\ \A k \in 1..Len(result[u][1].transactions) :
                    \E row \in db.transaction :
                        /\ row.userId = u
                        /\ row.organizationId = OrgOf[u]
                        /\ row.rawText = text[u][1]
                        /\ row.metadata.batchConfidence = result[u][1].confidence
                        /\ row.metadata.originalIndex = k - 1
                        /\ row.date = result[u][1].transactions[k].date
                        /\ row.amount = result[u][1].transactions[k].amount
                        /\ row.description = result[u][1].transactions[k].description

C22_LengthBound ==
    \A u \in Users :
        result[u] # NULL => (Len(text[u][1]) >= 5 /\ Len(text[u][1]) <= 10000)

(***************************************************************************)
(* getUserTransactions, deleteTransaction and updateTransaction            *)
(* (userService.ts) behind GET /, DELETE /:id and PUT /:id                 *)
(* (routes/transactions.ts): clients of the two users whose requests       *)
(* interleave at the awaits, over a table holding rows of both.            *)
(***************************************************************************)

\* the number of requests sent in a behaviour
MaxOps == 3

\* the clients, and the user each is signed in as
Clients == 1..3
UserOf == << "alice", "alice", "bob" >>

\* a row of the transaction table, with the columns the three operations
\* read or write (date and createdAt as the numbers getTime() gives)
Row(id, userId, date, createdAt, description) ==
    [id             |-> id,
     userId         |-> userId,
     organizationId |-> OrgOf[userId],
     date           |-> date,
     createdAt      |-> createdAt,
     description    |-> description]

\* the table the behaviours start from: rows saved by both users
SavedRows == { Row(1, "alice", 10, 1, "a"), Row(2, "alice", 20, 2, "b"),
               Row(3, "bob", 10, 3, "c"),   Row(4, "bob", 30, 4, "d") }

\* prisma.transaction.findFirst({ where: { id } }): no test of the owner
FindFirstById(table, id, userId, organizationId) ==
    IF \E row \in table : row.id = id
    THEN << CHOOSE row \in table : row.id = id >>
    ELSE NULL

\* prisma.transaction.findFirst({ where: { id, userId, organizationId } })
FindFirst(table, id, userId, organizationId) ==
    IF \E row \in table : row.id = id /\ row.userId = userId
                          /\ row.organizationId = organizationId
    THEN << CHOOSE row \in table : row.id = id /\ row.userId = userId
                                   /\ row.organizationId = organizationId >>
    ELSE NULL

\* the columns findMany selects
Selected(row) == [id |-> row.id, date |-> row.date,
                  createdAt |-> row.createdAt, description |-> row.description]

\* the where clause of findMany: the owner, and the cursor condition
\* { [sortBy]: { [order === "asc" ? "gt" : "lt"]: params.cursor } }
Where(table, userId, organizationId, params) ==
    {row \in table :
        /\ row.userId = userId
        /\ row.organizationId = organizationId
        /\ IF params.cursor = NULL THEN TRUE
           ELSE IF params.order = "asc"
           THEN row[params.sortBy] > params.cursor[1]
           ELSE row[params.sortBy] < params.cursor[1]}

\* orderBy: { [sortBy]: order }: the orders the database may return the
\* rows in, the order of rows equal in the sort column being unspecified
OrderBy(found, sortBy, order) ==
    {f \in [1..Cardinality(found) -> found] :
        /\ \A i \in DOMAIN f : \A j \in DOMAIN f : f[i] = f[j] => i = j
        /\ \A i \in DOMAIN f : \A j \in DOMAIN f :
              i < j => IF order = "asc" THEN f[i][sortBy] <= f[j][sortBy]
                       ELSE f[i][sortBy] >= f[j][sortBy]}

\* take: n
Take(f, n) == SubSeq(f, 1, IF Len(f) < n THEN Len(f) ELSE n)

\* what getUserTransactions returns from the rows findMany returned
PageOf(found, limit, sortBy) ==
    [items      |-> [i \in 1..Len(Take(found, limit)) |-> Selected(found[i])],
     hasMore    |-> Len(found) > limit,
     nextCursor |-> IF Len(found) > limit /\ limit >= 1
                    THEN << found[limit][sortBy] >> ELSE NULL]

\* getUserTransactions: the pages it may return
getUserTransactions(table, userId, organizationId, params) ==
    {PageOf(Take(f, (IF params.limit < 100 THEN params.limit ELSE 100) + 1),
            IF params.limit < 100 THEN params.limit ELSE 100, params.sortBy) :
        f \in OrderBy(Where(table, userId, organizationId, params),
                      params.sortBy, params.order)}

\* the defaults of paginationSchema
DefaultParams == [cursor |-> NULL, limit |-> 20, sortBy |-> "date", order |-> "desc"]

\* the requests: GET /, DELETE /:id and PUT /:id with a description
Ops == {[op |-> "list", id |-> 0, description |-> ""]}
       \cup {[op |-> "delete", id |-> i, description |-> ""] : i \in 1..5}
       \cup {[op |-> "update", id |-> i, description |-> "z"] : i \in 1..4}

\* c.json of the three handlers
Reply(status, code, items) == << [status |-> status, code |-> code, items |-> items] >>

\* the answers to a write that fails in the database because the row is
\* gone: the handler answers 404 when the message of the error contains
\* "not found", 500 otherwise
GoneReplies == {Reply(404, "NOT_FOUND", <<>>), Reply(500, "INTERNAL_SERVER_ERROR", <<>>)}

InitIsolation ==
    /\ text = <<>>
    /\ pc = [c \in Clients |-> "idle"]
    /\ blocks = <<>>
    /\ bi = 1
    /\ rows = <<>>
    /\ ri = 1
    /\ transactions = <<>>
    /\ result = NULL
    /\ now = 0
    /\ windows = EmptyMap
    /\ db = [EmptyDb EXCEPT !.transaction = SavedRows]
    /\ req = [sent   |-> 0,
              op     |-> [c \in Clients |-> NULL],
              answer |-> [c \in Clients |-> NULL]]

\* a request of client c arrives at its handler
Send(c) ==
    /\ pc[c] = "idle"
    /\ req.sent < MaxOps
    /\ \E o \in Ops :
          req' = [sent   |-> req.sent + 1,
                  op     |-> [req.op EXCEPT ![c] = << o >>],
                  answer |-> [req.answer EXCEPT ![c] = NULL]]
    /\ pc' = [pc EXCEPT ![c] = "find"]
    /\ UNCHANGED << db, now, windows >>
    /\ UNCHANGED << text, blocks, bi, rows, ri, transactions, result >>

\* GET /: the findMany of getUserTransactions and the answer
List(c) ==
    /\ pc[c] = "find"
    /\ req.op[c][1].op = "list"
    /\ \E page \in getUserTransactions(db.transaction, UserOf[c],
                                        OrgOf[UserOf[c]], DefaultParams) :
          req' = [req EXCEPT !.answer[c] = Reply(200, "OK", page.items)]
    /\ pc' = [pc EXCEPT ![c] = "idle"]
    /\ UNCHANGED << db, now, windows >>
    /\ UNCHANGED << text, blocks, bi, rows, ri, transactions, result >>

\* the findFirst of deleteTransaction and updateTransaction, with its result
Found(c, transaction) ==
    IF transaction = NULL
    THEN /\ req' = [req EXCEPT !.answer[c] = Reply(404, "NOT_FOUND", <<>>)]
         /\ pc' = [pc EXCEPT ![c] = "idle"]
    ELSE /\ req' = req
         /\ pc' = [pc EXCEPT ![c] = "write"]

Find(c) ==
    /\ pc[c] = "find"
    /\ req.op[c][1].op \in {"delete", "update"}
    /\ Found(c, FindFirst(db.transaction, req.op[c][1].id, UserOf[c],
                          OrgOf[UserOf[c]]))
    /\ UNCHANGED << db, now, windows >>
    /\ UNCHANGED << text, blocks, bi, rows, ri, transactions, result >>

\* prisma.transaction.delete({ where: { id } }) and the answer
Delete(c) ==
    /\ pc[c] = "write"
    /\ req.op[c][1].op = "delete"
    /\ IF \E row \in db.transaction : row.id = req.op[c][1].id
       THEN /\ db' = [db EXCEPT !.transaction =
                        {row \in @ : row.id # req.op[c][1].id}]
            /\ req' = [req EXCEPT !.answer[c] = Reply(200, "OK", <<>>)]
       ELSE /\ db' = db
            /\ \E reply \in GoneReplies : req' = [req EXCEPT !.answer[c] = reply]
    /\ pc' = [pc EXCEPT ![c] = "idle"]
    /\ UNCHANGED << now, windows >>
    /\ UNCHANGED << text, blocks, bi, rows, ri, transactions, result >>

\* prisma.transaction.update({ where: { id }, data }) and the answer
Update(c) ==
    /\ pc[c] = "write"
    /\ req.op[c][1].op = "update"
    /\ IF \E row \in db.transaction : row.id = req.op[c][1].id
       THEN /\ db' = [db EXCEPT !.transaction =
                        {IF row.id = req.op[c][1].id
                         THEN [row EXCEPT !.description = req.op[c][1].description]
                         ELSE row : row \in @}]
            /\ req' = [req EXCEPT !.answer[c] = Reply(200, "OK", <<>>)]
       ELSE /\ db' = db
            /\ \E reply \in GoneReplies : req' = [req EXCEPT !.answer[c] = reply]
    /\ pc' = [pc EXCEPT ![c] = "idle"]
    /\ UNCHANGED << now, windows >>
    /\ UNCHANGED << text, blocks, bi, rows, ri, transactions, result >>

NextIsolation ==
    \E c \in Clients :
        \/ Send(c)
        \/ List(c)
        \/ Find(c)
        \/ Delete(c)
        \/ Update(c)

SpecIsolation == InitIsolation /\ [][NextIsolation]_vars

\* the user who saved the row of an id (rows keep their id and their owner)
OwnerOf(id) == IF \E row \in SavedRows : row.id = id
               THEN << (CHOOSE row \in SavedRows : row.id = id).userId >>
               ELSE NULL

\* the answers to requests aimed at rows of others, and to list requests
AnsweredAsOwner ==
    \A c \in Clients :
        req.answer[c] # NULL =>
            /\ (req.op[c][1].op \in {"delete", "update"}
                /\ OwnerOf(req.op[c][1].id) # << UserOf[c] >>)
               => req.answer[c] = Reply(404, "NOT_FOUND", <<>>)
            /\ \A i \in 1..Len(req.answer[c][1].items) :
                  OwnerOf(req.answer[c][1].items[i].id) = << UserOf[c] >>

MaxRows == 3

\* the values of the date and createdAt columns
SortValues == {10, 20}

\* the tables: n rows of alice, and one of bob
TableOf(dates, created) ==
    {Row(i, "alice", dates[i], created[i], "a") : i \in DOMAIN dates}
    \cup {Row(9, "bob", 10, 1, "c")}

\* the query parameters paginationSchema lets through
PageParams == [cursor : {NULL}, limit : {1, 2, 100},
               sortBy : {"date", "createdAt"}, order : {"asc", "desc"}]

InitPages ==
    /\ text = <<>>
    /\ pc = "page"
    /\ blocks = <<>>
    /\ bi = 1
    /\ rows = <<>>
    /\ ri = 1
    /\ transactions = <<>>
    /\ result = NULL
    /\ now = 0
    /\ windows = EmptyMap
    /\ \E n \in 0..MaxRows :
          \E dates \in [1..n -> SortValues] :
              \E created \in [1..n -> SortValues] :
                  db = [EmptyDb EXCEPT !.transaction = TableOf(dates, created)]
    /\ \E params \in PageParams :
          req = [params |-> params, pages |-> <<>>]

\* one request of the traversal and its answer
NextPage ==
    /\ pc = "page"
    /\ \E page \in getUserTransactions(db.transaction, "alice", OrgOf["alice"],
                                        req.params) :
          /\ req' = [params |-> [req.params EXCEPT !.cursor = page.nextCursor],
                     pages  |-> Append(req.pages, page)]
          /\ pc' = IF page.nextCursor = NULL THEN "end" ELSE "page"
    /\ UNCHANGED << db, now, windows >>
    /\ UNCHANGED << text, blocks, bi, rows, ri, transactions, result >>

NextPages == NextPage

SpecPages == InitPages /\ [][NextPages]_vars

\* the ids of the items of the pages returned so far, in order
RECURSIVE ItemIds(_)
ItemIds(pages) ==
    IF pages = <<>> THEN <<>>
    ELSE ItemIds(SubSeq(pages, 1, Len(pages) - 1))
         \o [i \in 1..Len(pages[Len(pages)].items) |-> pages[Len(pages)].items[i].id]

\* the ids of the rows of the traversing user
OwnIds == {row.id : row \in {r \in db.transaction : r.userId = "alice"}}

\* C24: no page has more than limit <= 100 items; a page has a nextCursor
\* exactly when rows of the user are still to be returned; and when the
\* traversal ends, every row of the user was returned exactly once.
C24_EveryRowOnce ==
    /\ req.params.limit <= 100
    /\ \A k \in 1..Len(req.pages) : Len(req.pages[k].items) <= req.params.limit
    /\ \A i \in 1..Len(ItemIds(req.pages)) : \A j \in 1..Len(ItemIds(req.pages)) :
          ItemIds(req.pages)[i] = ItemIds(req.pages)[j] => i = j
    /\ req.pages # <<>> =>
          (req.pages[Len(req.pages)].nextCursor # NULL
           <=> {ItemIds(req.pages)[i] : i \in 1..Len(ItemIds(req.pages))} # OwnIds)
    /\ pc = "end" =>
          {ItemIds(req.pages)[i] : i \in 1..Len(ItemIds(req.pages))} = OwnIds

(***************************************************************************)
(* One call of parseTransactionsWithFallbacks on texts whose blocks hold   *)
(* comma-separated rows next to amounts that are zero, not numeric         *)
(* ("₹,") or positive, with and without hyphens before digits.             *)
(***************************************************************************)

MaxFallbackTokens == 3

FallbackTokens == { Chars("₹, x\n"),
                    Chars("2025-12-11, ₹5, y"),
                    Chars("2025-12-10, ₹0, z"),
                    Chars("Amount: 0 "),
                    Chars("11 Dec 2025 ₹1,250.00 "),
                    Chars("refund "),
                    Chars("₹, ref 12-34\n"),
                    Chars("05/03/2024, ₹5, refund"),
                    Chars("\n\n"),
                    Chars("\n") }

FallbackTexts ==
    {Concat(ts) : ts \in UNION {[1..n -> FallbackTokens] : n \in 0..MaxFallbackTokens}}

InitFallback ==
    /\ text \in FallbackTexts
    /\ pc = "call"
    /\ blocks = <<>>
    /\ bi = 1
    /\ rows = <<>>
    /\ ri = 1
    /\ transactions = <<>>
    /\ result = NULL
    /\ NoServer

SpecFallback == InitFallback /\ [][Next]_vars

\* the matches of the five amount patterns in block b
AmountMatches(b) ==
    {AmountPattern0(b), AmountPattern1(b), AmountPattern2(b),
     AmountPattern3(b), AmountPattern4(b)} \ {NULL}

\* the standard path has no record for block b because the amount it reads
\* is 0, or because it reads none although a pattern matches, the capture
\* of the match not being a number
ZeroOrNotNumeric(b, amount) ==
    IF amount = NULL
    THEN \E m \in AmountMatches(b) : AmountOfMatch(m) = NULL
    ELSE amount[1].amount = 0

\* the standard amount extraction returns a strictly positive number for
\* block b if some amount pattern matches in it
PositiveIfMatched(b, amount) ==
    AmountMatches(b) # {} => (amount # NULL /\ amount[1].amount > 0)

\* C27: when a call returns csv_fallback, every block holding a row the
\* fallback has a record for has a date, and the standard path read the
\* amount 0 in it or picked an amount match that is not a number; and a call
\* on a text in every block of which the standard amount extraction returns
\* a strictly positive number whenever an amount pattern matches does not
\* return csv_fallback.
C27_FallbackCause ==
    pc = "done" =>
        /\ result[1].parseMethod = "csv_fallback" =>
              /\ \E k \in 1..Len(blocks) : CsvRecords(blocks[k]) # <<>>
              /\ \A k \in 1..Len(blocks) :
                    CsvRecords(blocks[k]) # <<>> =>
                        /\ parseDate(blocks[k]) # NULL
                        /\ ZeroOrNotNumeric(blocks[k], parseAmount(blocks[k]))
        /\ (\A k \in 1..Len(blocks) :
                PositiveIfMatched(blocks[k], parseAmount(blocks[k])))
           => result[1].parseMethod # "csv_fallback"

\* C27 witness: csv_fallback returned for a text whose block has an amount
\* match that is not a number before the row, the row's amount being 5
C27_Witness ==
    /\ pc = "done"
    /\ result[1].parseMethod = "csv_fallback"
    /\ text = Chars("₹, x\n2025-12-11, ₹5, y")
    /\ parseAmount(blocks[1]) = NULL
    /\ result[1].transactions[1].amount = 500

\* t has a hyphen directly followed by a digit
HasHyphenDigit(t) == \E i \in 1..Len(t) : NegativeNumberAt(t, i)

\* the record a step of one of the two loops has added
Added == transactions'[Len(transactions')]

\* C28: a record typed credit never comes from a text with a hyphen directly
\* followed by a digit, the text being the block on the standard path and
\* the row on the CSV path: a block with a date written YYYY-MM-DD or
\* DD-MM-YYYY gives a debit on the standard path whatever its keywords.
C28_HyphenIsDebit ==
    [][Len(transactions') > Len(transactions) =>
          IF pc = "standard"
          THEN HasHyphenDigit(blocks[bi]) => Added.type = "debit"
          ELSE HasHyphenDigit(rows[ri]) => Added.type = "debit"
      ]_vars

\* C28 witness: the standard path typed debit the record of a block with a
\* date written YYYY-MM-DD whose keywords alone say credit
C28_Witness ==
    /\ pc = "done"
    /\ text = Chars("11 Dec 2025 ₹1,250.00 refund 2025-12-11, ₹5, y")
    /\ result[1].parseMethod = "standard"
    /\ result[1].transactions[1].type = "debit"
    /\ determineTransactionTypeByKeywords(text) = "credit"

\* C28 as stated: no record typed credit comes from a block with a hyphen
\* directly followed by a digit, on either path (the block of a row being
\* the block the row is a line of).
C28_NoCreditFromHyphenBlock ==
    [][Len(transactions') > Len(transactions) =>
          (Added.type = "credit" =>
              ~ \E k \in 1..Len(blocks) :
                    /\ HasHyphenDigit(blocks[k])
                    /\ IF pc = "standard" THEN k = bi
                       ELSE includes(blocks[k], rows[ri]))
      ]_vars

(***************************************************************************)
(* parseTransactionText on two texts without an empty line and on the two  *)
(* joined by an empty line.                                                *)
(***************************************************************************)

MaxJoinTokens == 2

JoinTokens == { Chars("₹1,250.00 "),
                Chars("05/03/2024 $5.50 Cr refund"),
                Chars("Balance: 10.00"),
                Chars("\n"),
                Chars(" ") }

\* the texts without a separator of blocks (/\n\s*\n/) in them
JoinTexts ==
    {t \in {Concat(ts) : ts \in UNION {[1..n -> JoinTokens] : n \in 0..MaxJoinTokens}} :
        ~ HasBlankLine(t)}

InitJoin ==
    /\ text \in JoinTexts \X JoinTexts
    /\ pc = "call"
    /\ blocks = <<>>
    /\ bi = 1
    /\ rows = <<>>
    /\ ri = 1
    /\ transactions = <<>>
    /\ result = NULL
    /\ NoServer

\* parseTransactionText of the first text, of the second, and of the two
\* with an empty line between them
ParseJoined ==
    /\ pc = "call"
    /\ result' = << [first  |-> parseTransactionText(text[1]),
                     second |-> parseTransactionText(text[2]),
                     joined |-> parseTransactionText(text[1] \o Chars("\n\n") \o text[2])] >>
    /\ pc' = "done"
    /\ UNCHANGED << text, blocks, bi, rows, ri, transactions >>
    /\ UNCHANGED server

NextJoin == ParseJoined

SpecJoin == InitJoin /\ [][NextJoin]_vars

\* C29: for texts b1 and b2 without a blank line, the records of b1, an
\* empty line, b2 are the records of b1 followed by the records of b2.
C29_BlocksIndependent ==
    pc = "done" => result[1].joined = result[1].first \o result[1].second

\* C29 witness: both texts have a record, the second one a balance the
\* first has not, and the joined text has the two records
C29_Witness ==
    /\ pc = "done"
    /\ Len(result[1].first) = 1
    /\ Len(result[1].second) = 1
    /\ Len(result[1].joined) = 2
    /\ result[1].first[1].balance = NULL
    /\ result[1].second[1].balance # NULL

(***************************************************************************)
(* POST /api/auth/register (routes/auth.ts): registrations in progress at  *)
(* once, each between two awaits of the handler, the clock Date.now()      *)
(* reads, and the user, organization and organizationMember tables.        *)
(***************************************************************************)

\* the number of register requests
MaxRegs == 2

Regs == 1..MaxRegs

\* the emails of the request bodies
Emails == {"a@x.io", "b@x.io"}

\* c.json of the handler: 201, 409 CONFLICT
Registered == Answer(201, "CREATED")
Conflict == Answer(409, "CONFLICT")

InitRegister ==
    /\ text = <<>>
    /\ pc = [r \in Regs |-> "idle"]
    /\ blocks = <<>>
    /\ bi = 1
    /\ rows = <<>>
    /\ ri = 1
    /\ transactions = <<>>
    /\ result = NULL
    /\ now = 0
    /\ windows = EmptyMap
    /\ db = EmptyDb
    /\ req = [r \in Regs |-> [email |-> "", orgId |-> NULL, answer |-> NULL]]

\* the request of registration r arrives: registerSchema.parse(body)
Register(r) ==
    /\ pc[r] = "idle"
    /\ req[r].answer = NULL
    /\ \E email \in Emails : req' = [req EXCEPT ![r].email = email]
    /\ pc' = [pc EXCEPT ![r] = "findUnique"]
    /\ UNCHANGED << db, now, windows >>
    /\ UNCHANGED << text, blocks, bi, rows, ri, transactions, result >>

\* prisma.user.findUnique({ where: { email } }); if (existingUser) 409
RegisterFindUnique(r) ==
    /\ pc[r] = "findUnique"
    /\ IF \E user \in db.user : user.email = req[r].email
       THEN /\ req' = [req EXCEPT ![r].answer = Conflict]
            /\ pc' = [pc EXCEPT ![r] = "idle"]
       ELSE /\ req' = req
            /\ pc' = [pc EXCEPT ![r] = "createUser"]
    /\ UNCHANGED << db, now, windows >>
    /\ UNCHANGED << text, blocks, bi, rows, ri, transactions, result >>

\* prisma.user.create: the row, or "Unique constraint failed" on the email
\* (user_email_key), which the catch answers with 409
RegisterCreateUser(r) ==
    /\ pc[r] = "createUser"
    /\ IF \E user \in db.user : user.email = req[r].email
       THEN /\ db' = db
            /\ req' = [req EXCEPT ![r].answer = Conflict]
            /\ pc' = [pc EXCEPT ![r] = "idle"]
       ELSE /\ db' = [db EXCEPT !.user = @ \cup {[id |-> r, email |-> req[r].email]}]
            /\ req' = req
            /\ pc' = [pc EXCEPT ![r] = "userCreated"]
    /\ UNCHANGED << now, windows >>
    /\ UNCHANGED << text, blocks, bi, rows, ri, transactions, result >>

\* the handler resumes with the user: id: `org_${Date.now()}` is computed
\* and prisma.organization.create is called
RegisterOrgId(r) ==
    /\ pc[r] = "userCreated"
    /\ req' = [req EXCEPT ![r].orgId = << now >>]
    /\ pc' = [pc EXCEPT ![r] = "createOrg"]
    /\ UNCHANGED << db, now, windows >>
    /\ UNCHANGED << text, blocks, bi, rows, ri, transactions, result >>

\* prisma.organization.create: the row, or "Unique constraint failed" on the
\* id (organization_pkey), which the catch answers with 409 as well
RegisterCreateOrg(r) ==
    /\ pc[r] = "createOrg"
    /\ IF \E organization \in db.organization : organization.id = req[r].orgId[1]
       THEN /\ db' = db
            /\ req' = [req EXCEPT ![r].answer = Conflict]
            /\ pc' = [pc EXCEPT ![r] = "idle"]
       ELSE /\ db' = [db EXCEPT !.organization =
                        @ \cup {[id |-> req[r].orgId[1], slug |-> r]}]
            /\ req' = req
            /\ pc' = [pc EXCEPT ![r] = "createMember"]
    /\ UNCHANGED << now, windows >>
    /\ UNCHANGED << text, blocks, bi, rows, ri, transactions, result >>

\* prisma.organizationMember.create({ role: "owner" }), createToken, 201
RegisterCreateMember(r) ==
    /\ pc[r] = "createMember"
    /\ db' = [db EXCEPT !.organizationMember =
                @ \cup {[organizationId |-> req[r].orgId[1], userId |-> r,
                         role |-> "owner"]}]
    /\ req' = [req EXCEPT ![r].answer = Registered]
    /\ pc' = [pc EXCEPT ![r] = "idle"]
    /\ UNCHANGED << now, windows >>
    /\ UNCHANGED << text, blocks, bi, rows, ri, transactions, result >>

NextRegister ==
    \/ Tick
    \/ \E r \in Regs :
          \/ Register(r)
          \/ RegisterFindUnique(r)
          \/ RegisterCreateUser(r)
          \/ RegisterOrgId(r)
          \/ RegisterCreateOrg(r)
          \/ RegisterCreateMember(r)

SpecRegister == InitRegister /\ [][NextRegister]_vars

\* the memberships of user id
MembershipsOf(id) == {m \in db.organizationMember : m.userId = id}

\* C30: a registration answered 201 has a user with exactly one
\* membership, of role owner; and whatever a registration is answered, the
\* user row it wrote, if any, has an owner membership.
C30_NoUserWithoutOwner ==
    \A r \in Regs :
        /\ req[r].answer = Registered =>
              /\ Cardinality(MembershipsOf(r)) = 1
              /\ \A m \in MembershipsOf(r) : m.role = "owner"
        /\ (req[r].answer # NULL /\ \E user \in db.user : user.id = r) =>
              \E m \in MembershipsOf(r) : m.role = "owner"

====
